---- MODULE Spec2Model ----
(***************************************************************************)
(* A model of nmrshll/rust-libs, crate api-client-utils: the response      *)
(* classifier (ExpectResp::partial_expect and its short-hands) and the     *)
(* error narrowing combinators (ClientErr::try_into_err_resp, ResultExt).  *)
(*                                                                         *)
(* A classification is one async call.  It suspends at client.execute()    *)
(* and at response.text(); the transport's answers are the model's inputs. *)
(***************************************************************************)
EXTENDS Integers, Sequences, FiniteSets, TLC

\* How many times the caller narrows the result it holds.
MaxNarrow == 2

\* The calls in flight.  Spec follows one of them, over all its inputs.
Procs == {1, 2}

----------------------------------------------------------------------------
\* Option<T> and Result<T, E>

None == <<>>
Some(x) == <<x>>
Ok(x) == [tag |-> "Ok", v |-> x]
Err(e) == [tag |-> "Err", v |-> e]
IsOk(r) == r.tag = "Ok"
IsErr(r) == r.tag = "Err"

----------------------------------------------------------------------------
\* Body texts.  A text is a sequence of lexical tokens <<kind, spelling>>:
\* "p" punctuation, "s" a string literal, "n" a number literal.

LBrace == <<"p", "{">>
RBrace == <<"p", "}">>
Colon == <<"p", ":">>
Comma == <<"p", ",">>
Str(s) == <<"s", s>>
Num(s) == <<"n", s>>

TextNotFound == <<LBrace, Str("message"), Colon, Str("not found"), RBrace>>
TextAvailable == <<LBrace, Str("status"), Colon, Str("available"), RBrace>>
TextBoth ==
    <<LBrace, Str("status"), Colon, Num("1"), Comma,
      Str("message"), Colon, Str("some error message"), RBrace>>
TextBadType == <<LBrace, Str("message"), Colon, Num("1"), RBrace>>
TextTruncated == <<LBrace, Str("message"), Colon, Str("not found")>>
TextEmpty == <<>>

Texts == {TextNotFound, TextAvailable, TextBoth, TextBadType, TextTruncated, TextEmpty}

----------------------------------------------------------------------------
\* SerialFormat::from_str for JsonFormat (serde_json::from_str), for the two
\* target types the crate's tests use: serde_json::Value and CustomApiError.

Shapes == {"Value", "CustomApiError"}

IsScalar(tok) == tok[1] \in {"s", "n"}
Scalar(tok) == [t |-> tok[1], s |-> tok[2], members |-> <<>>]
Object(members) == [t |-> "o", s |-> "", members |-> members]

\* The members of an object, text[i] being the next member's key; acc is the
\* sequence of <<key, value>> read so far.
RECURSIVE ParseMembers(_, _, _)
ParseMembers(text, i, acc) ==
    IF i + 3 > Len(text) THEN Err("EOF while parsing an object")
    ELSE IF text[i][1] # "s" THEN Err("key must be a string")
    ELSE IF text[i + 1] # Colon THEN Err("expected colon")
    ELSE IF ~IsScalar(text[i + 2]) THEN Err("expected value")
    ELSE LET acc2 == Append(acc, <<text[i][2], Scalar(text[i + 2])>>)
         IN  IF text[i + 3] = RBrace
             THEN IF i + 3 = Len(text) THEN Ok(Object(acc2))
                  ELSE Err("trailing characters")
             ELSE IF text[i + 3] = Comma THEN ParseMembers(text, i + 4, acc2)
             ELSE Err("expected comma or closing brace")

ParseJson(text) ==
    IF Len(text) = 0 THEN Err("EOF while parsing a value")
    ELSE IF IsScalar(text[1])
    THEN IF Len(text) = 1 THEN Ok(Scalar(text[1])) ELSE Err("trailing characters")
    ELSE IF text[1] # LBrace THEN Err("expected value")
    ELSE IF Len(text) = 2 /\ text[2] = RBrace THEN Ok(Object(<<>>))
    ELSE ParseMembers(text, 2, <<>>)

\* The values of the members named key, in order of appearance.
MembersNamed(members, key) ==
    SelectSeq(members, LAMBDA m : m[1] = key)

\* #[derive(Deserialize)] struct CustomApiError { message: String }
DeserializeCustomApiError(json) ==
    IF json.t # "o" THEN Err("invalid type: expected struct CustomApiError")
    ELSE LET ms == MembersNamed(json.members, "message")
         IN  IF Len(ms) = 0 THEN Err("missing field message")
             ELSE IF Len(ms) > 1 THEN Err("duplicate field message")
             ELSE IF ms[1][2].t # "s" THEN Err("invalid type: expected a string")
             ELSE Ok([message |-> ms[1][2].s])

\* serde_json::Value: an object is a map, a repeated key keeps its last value.
DeserializeValue(json) ==
    IF json.t # "o" THEN Ok(json)
    ELSE LET keys == {json.members[i][1] : i \in DOMAIN json.members}
             last(k) == LET ms == MembersNamed(json.members, k) IN ms[Len(ms)][2]
         IN  Ok(Object([k \in keys |-> last(k)]))

from_str(shape, input) ==
    LET json == ParseJson(input)
    IN  IF IsErr(json) THEN json
        ELSE IF shape = "Value" THEN DeserializeValue(json.v)
        ELSE DeserializeCustomApiError(json.v)

----------------------------------------------------------------------------
\* reqwest's Method, Url, StatusCode and Error, as far as the crate reads them.

Methods == {"GET", "POST"}
Urls == {"http://hello.com/", "https://petstore.swagger.io/v2/endpoint-doesnt-exist"}
StatusCodes == {200, 204, 302, 400, 404}
ReqwestErrors == {"timeout", "connect"}

\* is_success, were it written as a test for 200 OK.
is_success_only_ok(status) == status = 200

\* StatusCode::is_success
is_success(status) == 200 =< status /\ status < 300

\* What a RequestBuilder holds: the request, or the error building it met.
Requests ==
    {Ok([method |-> m, url |-> u]) : m \in Methods, u \in Urls}
        \cup {Err(e) : e \in ReqwestErrors}

----------------------------------------------------------------------------
\* context::RespContext, context::OkRespWithContext, error::ClientErr

\* RespContext, were the text moved out of it before it is stored.
RespContext_text_taken(method, url, got_status, response_text) ==
    [method |-> method, url |-> url, got_status |-> got_status,
     response_text |-> <<>>]

RespContext(method, url, got_status, response_text) ==
    [method |-> method, url |-> url, got_status |-> got_status,
     response_text |-> response_text]

OkRespWithContext(ok_body, context) == [ok_body |-> ok_body, context |-> context]

BuildRequest(e) == [tag |-> "BuildRequest", e |-> e]
ExecuteRequest(e) == [tag |-> "ExecuteRequest", e |-> e]
ReadRespBodyText(e) == [tag |-> "ReadRespBodyText", e |-> e]
ExpectedErrorResponse(context) == [tag |-> "ExpectedErrorResponse", context |-> context]
ExpectedStatus(context, expected_status) ==
    [tag |-> "ExpectedStatus", context |-> context, expected_status |-> expected_status]
DeserializeError(context, deserialize_error) ==
    [tag |-> "DeserializeError", context |-> context,
     deserialize_error |-> deserialize_error]
ErrorResponse(context, err_body) ==
    [tag |-> "ErrorResponse", context |-> context, err_body |-> err_body]

\* ClientErr::context
context(self) ==
    CASE self.tag = "BuildRequest" -> None
      [] self.tag = "ExecuteRequest" -> None
      [] self.tag = "ReadRespBodyText" -> None
      [] self.tag = "ExpectedErrorResponse" -> self.context
      [] self.tag = "ExpectedStatus" -> Some(self.context)
      [] self.tag = "DeserializeError" -> Some(self.context)
      [] self.tag = "ErrorResponse" -> Some(self.context)

\* ClientErr::response_text
response_text(self) ==
    IF context(self) = None THEN None ELSE Some(context(self)[1].response_text)

\* Display.  A rendering is a sequence of lines; a line is a sequence of
\* chunks, each a literal <<"lit", chars>> or a token of a body text.

Lit(chars) == <<"lit", chars>>

\* Display for StatusCode: the code and its canonical reason.
StatusDisplay(status) ==
    CASE status = 200 -> Lit("200 OK")
      [] status = 204 -> Lit("204 No Content")
      [] status = 302 -> Lit("302 Found")
      [] status = 400 -> Lit("400 Bad Request")
      [] status = 404 -> Lit("404 Not Found")

\* The keys the texts use, in the order serde_json's map keeps them.
JsonKeys == <<"message", "status">>

RECURSIVE JoinMembers(_, _)
JoinMembers(members, keys) ==
    IF keys = <<>> THEN <<>>
    ELSE <<Str(Head(keys)), Colon,
           <<members[Head(keys)].t, members[Head(keys)].s>>>>
         \o (IF Tail(keys) = <<>> THEN <<>> ELSE <<Comma>>)
         \o JoinMembers(members, Tail(keys))

\* Display for serde_json::Value: the value, serialized compactly.
ValueDisplay(value) ==
    IF value.t # "o" THEN <<<<value.t, value.s>>>>
    ELSE <<LBrace>>
         \o JoinMembers(value.members,
                        SelectSeq(JsonKeys, LAMBDA k : k \in DOMAIN value.members))
         \o <<RBrace>>

\* Display for ErrResp: CustomApiError's #[error(...)] text, or the Value.
ErrRespDisplay(err_body) ==
    IF "message" \in DOMAIN err_body
    THEN <<Lit("Pet API err response: "), Lit(err_body.message)>>
    ELSE ValueDisplay(err_body)

\* The three parts fmt writes: the request line, when there is a context;
\* error_msg_core; the response text, when there is one.
request_line(self) ==
    IF context(self) # None
    THEN <<<<Lit(context(self)[1].method), Lit(" "), Lit(context(self)[1].url)>>>>
    ELSE <<>>

error_msg_core(self) ==
    CASE self.tag = "BuildRequest" ->
            <<Lit("Failed building request: "), Lit(self.e)>>
      [] self.tag = "ExecuteRequest" ->
            <<Lit("Failed executing request: "), Lit(self.e)>>
      [] self.tag = "ReadRespBodyText" ->
            <<Lit("Failed reading response text: "), Lit(self.e)>>
      [] self.tag = "ExpectedErrorResponse" ->
            <<Lit("Expected error response, got success")>>
      [] self.tag = "ExpectedStatus" ->
            <<Lit("Expected status: "), StatusDisplay(self.expected_status),
              Lit(", got: "), StatusDisplay(self.context.got_status)>>
      [] self.tag = "DeserializeError" ->
            <<Lit("Failed deserializing JSON response: "),
              Lit(self.deserialize_error), Lit(", response_body: ")>>
            \o self.context.response_text
      [] self.tag = "ErrorResponse" ->
            <<Lit("Got API error response: ")>> \o ErrRespDisplay(self.err_body)

text_line(self) ==
    IF response_text(self) # None THEN <<response_text(self)[1]>> ELSE <<>>

\* fmt, were the closing line with the response text left out.
fmt_without_text(self) ==
    request_line(self) \o <<error_msg_core(self)>>

\* impl Display for ClientErr
fmt(self) ==
    request_line(self) \o <<error_msg_core(self)>> \o text_line(self)

expect_status_inverted(self, expect) ==
    IF self.got_status = expect
    THEN Err([tag |-> "ExpectedStatus", context |-> self, expected_status |-> expect])
    ELSE Ok(<<>>)

\* expect_status, were the status got recorded as the one expected.
expect_status_records_got(self, expect) ==
    IF self.got_status # expect
    THEN Err([tag |-> "ExpectedStatus", context |-> self,
              expected_status |-> self.got_status])
    ELSE Ok(<<>>)

\* expect_status, were the text left out of the context it stores (to
\* spare the clone).
expect_status_drops_text(self, expect) ==
    IF self.got_status # expect
    THEN Err([tag |-> "ExpectedStatus",
              context |-> [self EXCEPT !.response_text = <<>>],
              expected_status |-> expect])
    ELSE Ok(<<>>)

\* RespContext::expect_status
expect_status(self, expect) ==
    IF self.got_status # expect
    THEN Err(ExpectedStatus(self, expect))
    ELSE Ok(<<>>)

\* try_into_err_resp, were the result of the status check dropped (no `?`).
try_into_err_resp_unchecked(self, expect) ==
    IF self.tag = "ErrorResponse" THEN Ok(self.err_body) ELSE Err(self)

\* try_into_err_resp, were the variant matched first and the status checked
\* for ErrorResponse alone.
try_into_err_resp_variant_first(self, expect) ==
    IF self.tag = "ErrorResponse"
    THEN IF self.context.got_status # expect
         THEN Err([tag |-> "ExpectedStatus", context |-> self.context,
                   expected_status |-> expect])
         ELSE Ok(self.err_body)
    ELSE Err(self)

\* try_into_err_resp, were an ExpectedStatus that passes the check brought
\* up to date with the status now expected.
try_into_err_resp_restatuses(self, expect) ==
    LET checked == IF context(self) # None
                   THEN expect_status(context(self)[1], expect)
                   ELSE Ok(<<>>)
    IN  IF IsErr(checked) THEN checked
        ELSE IF self.tag = "ErrorResponse" THEN Ok(self.err_body)
        ELSE IF self.tag = "ExpectedStatus"
        THEN Err([self EXCEPT !.expected_status = expect])
        ELSE Err(self)

\* try_into_err_resp, were every error that is no ErrorResponse reported as
\* ExpectedErrorResponse.
try_into_err_resp_wraps(self, expect) ==
    LET checked == IF context(self) # None
                   THEN expect_status(context(self)[1], expect)
                   ELSE Ok(<<>>)
    IN  IF IsErr(checked) THEN checked
        ELSE IF self.tag = "ErrorResponse" THEN Ok(self.err_body)
        ELSE Err([tag |-> "ExpectedErrorResponse", context |-> context(self)])

\* ClientErr::try_into_err_resp
try_into_err_resp(self, expect) ==
    LET checked == IF context(self) # None
                   THEN expect_status(context(self)[1], expect)
                   ELSE Ok(<<>>)
    IN  IF IsErr(checked) THEN checked
        ELSE IF self.tag = "ErrorResponse" THEN Ok(self.err_body)
        ELSE Err(self)

\* ResultExt::try_into_err_resp, were an Ok result passed through.
result_try_into_err_resp_keeps_ok(self, expect) ==
    IF IsOk(self) THEN self
    ELSE try_into_err_resp(self.v, expect)

\* ResultExt::try_into_err_resp, for ApiResult<Ok, ErrResp, F>
result_try_into_err_resp(self, expect) ==
    IF IsOk(self) THEN Err(ExpectedErrorResponse(None))
    ELSE try_into_err_resp(self.v, expect)

----------------------------------------------------------------------------
\* ExpectResp: the tail of partial_expect, from the status branch on.  The
\* shapes F::from_str was called with are recorded beside the result.

\* classify, were both shapes tried and whichever parses taken.
classify_either(ctx, OkT, ErrT) ==
    LET o == from_str(OkT, ctx.response_text)
        e == from_str(ErrT, ctx.response_text)
    IN  [decoded |-> <<OkT, ErrT>>,
         result |-> IF IsOk(o)
                    THEN Ok([ok_body |-> o.v, context |-> ctx])
                    ELSE IF IsOk(e)
                    THEN Err([tag |-> "ErrorResponse", context |-> ctx, err_body |-> e.v])
                    ELSE Err([tag |-> "DeserializeError", context |-> ctx,
                              deserialize_error |-> e.v])]

\* classify, were the other shape tried after a decode failure.
classify_fallback(ctx, OkT, ErrT) ==
    LET o == from_str(OkT, ctx.response_text)
        e == from_str(ErrT, ctx.response_text)
        as_ok == Ok([ok_body |-> o.v, context |-> ctx])
        as_err == Err([tag |-> "ErrorResponse", context |-> ctx, err_body |-> e.v])
        failed(d) == Err([tag |-> "DeserializeError", context |-> ctx,
                          deserialize_error |-> d.v])
    IN  IF ~(ctx.got_status \in 200..299)
        THEN IF IsOk(e) THEN [decoded |-> <<ErrT>>, result |-> as_err]
             ELSE [decoded |-> <<ErrT, OkT>>,
                   result |-> IF IsOk(o) THEN as_ok ELSE failed(e)]
        ELSE IF IsOk(o) THEN [decoded |-> <<OkT>>, result |-> as_ok]
             ELSE [decoded |-> <<OkT, ErrT>>,
                   result |-> IF IsOk(e) THEN as_err ELSE failed(o)]

\* classify, were a 2xx text that does not decode replaced by a default value.
classify_default(ctx, OkT, ErrT) ==
    IF ~(ctx.got_status \in 200..299)
    THEN LET r == from_str(ErrT, ctx.response_text)
         IN  [decoded |-> <<ErrT>>,
              result |-> IF IsOk(r)
                         THEN Err([tag |-> "ErrorResponse", context |-> ctx, err_body |-> r.v])
                         ELSE Err([tag |-> "DeserializeError", context |-> ctx,
                                   deserialize_error |-> r.v])]
    ELSE LET r == from_str(OkT, ctx.response_text)
         IN  [decoded |-> <<OkT>>,
              result |-> Ok([ok_body |-> IF IsOk(r) THEN r.v ELSE Object(<<>>),
                             context |-> ctx])]

classify(ctx, OkT, ErrT) ==
    IF ~is_success(ctx.got_status)
    THEN LET r == from_str(ErrT, ctx.response_text)
         IN  [decoded |-> <<ErrT>>,
              result |-> IF IsOk(r) THEN Err(ErrorResponse(ctx, r.v))
                         ELSE Err(DeserializeError(ctx, r.v))]
    ELSE LET r == from_str(OkT, ctx.response_text)
         IN  [decoded |-> <<OkT>>,
              result |-> IF IsOk(r) THEN Ok(OkRespWithContext(r.v, ctx))
                         ELSE Err(DeserializeError(ctx, r.v))]

\* expect_ok, were the Ok response returned whole, context included.
expect_ok_whole(r) == r

\* ExpectResp::expect_ok (and ReceiveJson::recv_json, which is expect_ok)
expect_ok(r) == IF IsOk(r) THEN Ok(r.v.ok_body) ELSE r

\* expect_err_resp, were the context of the Ok response not passed on.
expect_err_resp_no_context(r, expect) ==
    IF IsOk(r) THEN Err([tag |-> "ExpectedErrorResponse", context |-> <<>>])
    ELSE try_into_err_resp(r.v, expect)

\* expect_err_resp, were the error returned without narrowing it.
expect_err_resp_unnarrowed(r, expect) ==
    IF IsOk(r) THEN Err([tag |-> "ExpectedErrorResponse", context |-> <<r.v.context>>])
    ELSE r

\* ExpectResp::expect_err_resp
expect_err_resp(r, expect) ==
    IF IsOk(r) THEN Err(ExpectedErrorResponse(Some(r.v.context)))
    ELSE try_into_err_resp(r.v, expect)

\* The calls a caller can make: entry point, type parameters, request.
Calls ==
    {[fn |-> f, expect |-> e, OkT |-> o, ErrT |-> r, request |-> q] :
        f \in {"partial_expect", "expect_ok"}, e \in {None},
        o \in Shapes, r \in Shapes, q \in Requests}
    \cup
    {[fn |-> f, expect |-> Some(e), OkT |-> o, ErrT |-> r, request |-> q] :
        f \in {"expect_err_resp"}, e \in StatusCodes,
        o \in Shapes, r \in Shapes, q \in Requests}

\* What the entry point c.fn returns when partial_expect resolved to r.
returned(c, r) ==
    CASE c.fn = "partial_expect" -> r
      [] c.fn = "expect_ok" -> expect_ok(r)
      [] c.fn = "expect_err_resp" -> expect_err_resp(r, c.expect[1])

----------------------------------------------------------------------------
\* ---- api-client-utils: ApiClient::path ----
\* A URL or path is a sequence of characters, each a one-character string.

MaxUrl == 4

UrlChars == {"a", "/", " "}
UrlTexts == UNION {[1..n -> UrlChars] : n \in 0..MaxUrl}

\* The characters of UrlChars that char::is_whitespace holds of.
Whitespace == {" "}

\* str::trim_start_matches: a character of the pattern is taken off the start
\* until none stands there.
RECURSIVE trim_start_matches(_, _)
trim_start_matches(self, pat) ==
    IF self # <<>> /\ Head(self) \in pat
    THEN trim_start_matches(Tail(self), pat)
    ELSE self

\* str::trim_end_matches
RECURSIVE trim_end_matches(_, _)
trim_end_matches(self, pat) ==
    IF self # <<>> /\ self[Len(self)] \in pat
    THEN trim_end_matches(SubSeq(self, 1, Len(self) - 1), pat)
    ELSE self

\* str::trim
trim(self) == trim_end_matches(trim_start_matches(self, Whitespace), Whitespace)

\* ApiClient::path, were one slash at most taken off the end of the base.
path_one_slash(base_url, url_path) ==
    LET trimmed == trim(base_url)
        origin == IF trimmed # <<>> /\ trimmed[Len(trimmed)] = "/"
                  THEN SubSeq(trimmed, 1, Len(trimmed) - 1) ELSE trimmed
        path_ == trim_start_matches(trim(url_path), {"/"})
    IN  origin \o <<"/">> \o path_

\* ApiClient::path, for a client whose base_url() is base_url
path(base_url, url_path) ==
    LET origin == trim_end_matches(trim(base_url), {"/"})
        path_ == trim_start_matches(trim(url_path), {"/"})
    IN  origin \o <<"/">> \o path_

\* ---- strings: Slug ----
\* A text is a sequence of characters, each a one-character string.

MaxText == 4

Upper == {"A", "É"}
\* 'a'..='z' | '0'..='9'
Alnum == {"a", "b", "c", "d", "e", "f", "g", "h", "i", "j", "k", "l", "m",
          "n", "o", "p", "q", "r", "s", "t", "u", "v", "w", "x", "y", "z",
          "0", "1", "2", "3", "4", "5", "6", "7", "8", "9"}
Separators == {" ", "_", "-"}
Accented == {"é", "ñ"}
\* The characters the texts are made of.
Chars == Upper \cup {"a", "9"} \cup Separators \cup Accented \cup {"!"}
StrTexts == UNION {[1..n -> Chars] : n \in 0..MaxText}

\* char::to_lowercase, on Chars.
lower(c) ==
    CASE c = "A" -> "a"
      [] c = "É" -> "é"
      [] OTHER -> c

\* str::to_lowercase
to_lowercase(text) == [i \in DOMAIN text |-> lower(text[i])]

\* The base letter pushed for an accented character.
base_letter(c) ==
    CASE c = "é" -> "e"
      [] c = "ñ" -> "n"

last_char(result) == IF result = <<>> THEN None ELSE Some(result[Len(result)])

\* The for loop of slugify, were a hyphen pushed onto an empty result too.
RECURSIVE push_chars_leading(_, _)
push_chars_leading(result, chars) ==
    IF chars = <<>> THEN result
    ELSE LET c == Head(chars)
             pushed ==
                 CASE c \in Alnum -> Append(result, c)
                   [] c \in Separators ->
                        IF last_char(result) # Some("-")
                        THEN Append(result, "-") ELSE result
                   [] c \in Accented -> Append(result, base_letter(c))
                   [] OTHER -> result
         IN  push_chars_leading(pushed, Tail(chars))

\* The for loop of slugify: result after the characters chars.
RECURSIVE push_chars(_, _)
push_chars(result, chars) ==
    IF chars = <<>> THEN result
    ELSE LET c == Head(chars)
             pushed ==
                 CASE c \in Alnum -> Append(result, c)
                   [] c \in Separators ->
                        IF result # <<>> /\ last_char(result) # Some("-")
                        THEN Append(result, "-") ELSE result
                   [] c \in Accented -> Append(result, base_letter(c))
                   [] OTHER -> result
         IN  push_chars(pushed, Tail(chars))

\* while result.ends_with('-') { result.pop(); }
RECURSIVE pop_hyphens(_)
pop_hyphens(result) ==
    IF result # <<>> /\ result[Len(result)] = "-"
    THEN pop_hyphens(SubSeq(result, 1, Len(result) - 1))
    ELSE result

\* Slug::slugify
slugify(text) == pop_hyphens(push_chars(<<>>, to_lowercase(text)))

\* Slug::to_slug, for &str and for String
to_slug(self) == slugify(self)

\* ---- file-cache ----
\* File contents are sequences of characters, each a one-character string.

Digits == <<"0", "1", "2", "3", "4", "5", "6", "7", "8", "9">>
DigitOf(c) == (CHOOSE i \in DOMAIN Digits : Digits[i] = c) - 1
IsDigit(c) == \E i \in DOMAIN Digits : Digits[i] = c

\* usize::to_string
RECURSIVE usize_to_string(_)
usize_to_string(n) ==
    IF n < 10 THEN <<Digits[n + 1]>>
    ELSE usize_to_string(n \div 10) \o <<Digits[(n % 10) + 1]>>

RECURSIVE digits_value(_, _)
digits_value(acc, chars) ==
    IF chars = <<>> THEN acc
    ELSE digits_value(acc * 10 + DigitOf(Head(chars)), Tail(chars))

\* str::parse::<usize>: an optional '+', then one digit at least.
parse_usize(chars) ==
    LET digits == IF chars # <<>> /\ Head(chars) = "+" THEN Tail(chars) ELSE chars
    IN  IF digits # <<>> /\ \A i \in DOMAIN digits : IsDigit(digits[i])
        THEN Ok(digits_value(0, digits))
        ELSE Err("invalid digit found in string")

\* The types with FileBytes: CacheCounter, (), and Token, a Cacheable type
\* with JsonFileBytes whose values expire.
FileTypes == {"CacheCounter", "Unit", "Token"}

CacheCounter(n) == [T |-> "CacheCounter", n |-> n]
Unit == [T |-> "Unit"]
Token(secret, expires_at) == [T |-> "Token", secret |-> secret, expires_at |-> expires_at]

\* FileBytes::as_file_bytes
as_file_bytes(self) ==
    CASE self.T = "CacheCounter" -> Ok(usize_to_string(self.n))
      [] self.T = "Unit" -> Ok(<<"o", "k">>)
      [] self.T = "Token" ->
            Ok(<<"{">> \o usize_to_string(self.secret) \o <<",">>
               \o usize_to_string(self.expires_at) \o <<"}">>)

\* The position of the first c in chars, or 0.
find(chars, c) ==
    IF \E i \in DOMAIN chars : chars[i] = c
    THEN CHOOSE i \in DOMAIN chars : chars[i] = c /\ \A j \in 1..(i - 1) : chars[j] # c
    ELSE 0

\* serde_json::from_slice, for Token
token_from_slice(bytes) ==
    LET comma == find(bytes, ",")
        fields == IF Len(bytes) >= 2 /\ bytes[1] = "{" /\ bytes[Len(bytes)] = "}"
                        /\ comma # 0
                  THEN <<SubSeq(bytes, 2, comma - 1), SubSeq(bytes, comma + 1, Len(bytes) - 1)>>
                  ELSE <<>>
    IN  IF fields # <<>>
           /\ \A f \in {1, 2} :
                fields[f] # <<>> /\ \A i \in DOMAIN fields[f] : IsDigit(fields[f][i])
        THEN Ok(Token(digits_value(0, fields[1]), digits_value(0, fields[2])))
        ELSE Err("expected value")

\* FileBytes::from_file_bytes, for Self = T
from_file_bytes(T, bytes) ==
    CASE T = "CacheCounter" ->
            (LET parsed == parse_usize(bytes)
             IN  IF IsOk(parsed) THEN Ok(CacheCounter(parsed.v)) ELSE parsed)
      [] T = "Unit" -> Ok(Unit)
      [] T = "Token" -> token_from_slice(bytes)

\* Paths are sequences of components.  The file system is a record: the
\* directories that exist, and what each file holds (None when there is no
\* such file).

join(dir, name) == Append(dir, name)

\* Path::parent
parent(file_path) ==
    IF file_path = <<>> THEN None
    ELSE Some(SubSeq(file_path, 1, Len(file_path) - 1))

\* The environment of the process: XDG_CACHE_HOME is not set, HOME is.
Env == [XDG_CACHE_HOME |-> None, HOME |-> Some(<<"home">>)]

\* std::env::var
var(name) == IF Env[name] = None THEN Err("environment variable not found")
             ELSE Ok(Env[name][1])

\* What GIT_WORK_DIR can be: the top level of the repository, or the error
\* of a git that could not be run.
GitWorkDirs == {Ok(<<"repo">>), Err("No such file or directory (os error 2)")}

\* impl CacheLocation for CacheInRepo
CacheInRepo_cache_dir(GIT_WORK_DIR) ==
    IF IsErr(GIT_WORK_DIR) THEN GIT_WORK_DIR
    ELSE Ok(join(GIT_WORK_DIR.v, ".cache"))

\* impl CacheLocation for RepoOrXdg
RepoOrXdg_cache_dir(GIT_WORK_DIR) ==
    IF IsOk(GIT_WORK_DIR) THEN Ok(join(GIT_WORK_DIR.v, ".cache"))
    ELSE IF IsOk(var("XDG_CACHE_HOME"))
    THEN Ok(join(var("XDG_CACHE_HOME").v, "accounting"))
    ELSE IF IsOk(var("HOME"))
    THEN Ok(join(join(var("HOME").v, ".cache"), "accounting"))
    ELSE Err("No suitable cache dir found")

\* CacheLocation::file_path, given what cache_dir() returned
file_path(cache_dir, path_relative) ==
    IF IsErr(cache_dir) THEN cache_dir
    ELSE Ok(join(cache_dir.v, path_relative))

FileIds == {"test_counter", "Token"}
CacheDirs == {<<"repo", ".cache">>, <<"home", ".cache", "accounting">>}
FilePaths == {join(d, id) : d \in CacheDirs, id \in FileIds}

\* Path::exists
exists(fs, file) == fs.files[file] # None

\* fs::write: the directory of the file must be there.
write(fs, file, bytes) ==
    IF parent(file) # None /\ parent(file)[1] \in fs.dirs
    THEN [fs |-> [fs EXCEPT !.files[file] = Some(bytes)], ret |-> Ok(<<>>)]
    ELSE [fs |-> fs, ret |-> Err("No such file or directory (os error 2)")]

\* fs::create_dir_all(dir), for a cache directory
create_dir_all(fs, dir) == [fs EXCEPT !.dirs = @ \cup {dir}]

\* fs::remove_file
remove_file(fs, file) ==
    IF exists(fs, file)
    THEN [fs |-> [fs EXCEPT !.files[file] = None], ret |-> Ok(<<>>)]
    ELSE [fs |-> fs, ret |-> Err("No such file or directory (os error 2)")]

\* FileBytes::from_file, for Self = T
from_file(T, fs, file) ==
    IF ~exists(fs, file) THEN Err("No such file or directory (os error 2)")
    ELSE from_file_bytes(T, fs.files[file][1])

\* FileBytes::to_file
to_file(self, fs, file) ==
    IF parent(file) = None THEN [fs |-> fs, ret |-> Err("No parent dir")]
    ELSE LET made == create_dir_all(fs, parent(file)[1])
             bytes == as_file_bytes(self)
         IN  IF IsErr(bytes) THEN [fs |-> made, ret |-> bytes]
             ELSE write(made, file, bytes.v)

\* FromFileOrNew::from_file_or_save_new for Self = T and CacheDir =
\* CacheInRepo, up to make_new.await: what it returns, or that it awaits.
load_or_await(T, fs, GIT_WORK_DIR, file_id) ==
    LET file == file_path(CacheInRepo_cache_dir(GIT_WORK_DIR), file_id)
    IN  IF IsErr(file) THEN [await |-> FALSE, ret |-> file]
        ELSE IF exists(fs, file.v)
        THEN [await |-> FALSE, ret |-> from_file(T, fs, file.v)]
        ELSE [await |-> TRUE, file |-> file.v]

\* from_file_or_save_new from make_new.await on; new is what make_new
\* resolved to.  ret is None when the call panics (Unable to write file).
save_new(fs, file, new) ==
    IF IsErr(new) THEN [fs |-> fs, ret |-> Some(new)]
    ELSE LET bytes == as_file_bytes(new.v)
         IN  IF IsErr(bytes) THEN [fs |-> fs, ret |-> Some(bytes)]
             ELSE LET written == write(fs, file, bytes.v)
                  IN  IF IsErr(written.ret) THEN [fs |-> fs, ret |-> None]
                      ELSE [fs |-> written.fs, ret |-> Some(Ok(new.v))]

\* CacheCounter::next, were the counter returned without writing it back.
next_after_unsaved(fs, GIT_WORK_DIR, file_id, loaded) ==
    IF IsErr(loaded) THEN [fs |-> fs, ret |-> loaded]
    ELSE [fs |-> fs, ret |-> Ok(CacheCounter(loaded.v.n + 1))]

\* CacheCounter::next, after cached_or_default(file_id).await returned loaded
next_after(fs, GIT_WORK_DIR, file_id, loaded) ==
    IF IsErr(loaded) THEN [fs |-> fs, ret |-> loaded]
    ELSE LET counter == CacheCounter(loaded.v.n + 1)
             file == file_path(CacheInRepo_cache_dir(GIT_WORK_DIR), file_id)
         IN  IF IsErr(file) THEN [fs |-> fs, ret |-> file]
             ELSE LET saved == to_file(counter, fs, file.v)
                  IN  IF IsErr(saved.ret) THEN saved
                      ELSE [fs |-> saved.fs, ret |-> Ok(counter)]

\* What the entry point c.fn does once from_file_or_save_new returned loaded.
after_load(c, fs, GIT_WORK_DIR, loaded) ==
    IF c.fn = "next" THEN next_after(fs, GIT_WORK_DIR, c.file_id, loaded)
    ELSE [fs |-> fs, ret |-> loaded]

\* Cacheable::is_expired, as Token overrides it: now is the time it reads.
is_expired(self, now) == now >= self.expires_at

\* Cacheable::relative_path_str: the name of the type.
relative_path_str(self) == self.T

\* Cacheable::to_cache
to_cache(self, fs, GIT_WORK_DIR) ==
    LET file == file_path(RepoOrXdg_cache_dir(GIT_WORK_DIR), relative_path_str(self))
    IN  IF IsErr(file) THEN [fs |-> fs, ret |-> file]
        ELSE LET saved == to_file(self, fs, file.v)
             IN  IF IsErr(saved.ret) THEN saved
                 ELSE [fs |-> saved.fs, ret |-> Ok(file.v)]

\* Cacheable::from_cache, were the expired value returned once more.
from_cache_lenient(T, fs, file, now) ==
    LET loaded == from_file(T, fs, file)
    IN  IF IsErr(loaded) THEN [fs |-> fs, ret |-> loaded]
        ELSE IF is_expired(loaded.v, now)
        THEN [fs |-> remove_file(fs, file).fs, ret |-> loaded]
        ELSE [fs |-> fs, ret |-> loaded]

\* Cacheable::from_cache, for Self = T
from_cache(T, fs, file, now) ==
    LET loaded == from_file(T, fs, file)
    IN  IF IsErr(loaded) THEN [fs |-> fs, ret |-> loaded]
        ELSE IF is_expired(loaded.v, now)
        THEN LET removed == remove_file(fs, file)
             IN  IF IsErr(removed.ret) THEN removed
                 ELSE [fs |-> removed.fs, ret |-> Err("Cache expired")]
        ELSE [fs |-> fs, ret |-> loaded]

VARIABLES
    pc,          \* where each call is: "start", "execute", "text", "done"
    call,        \* the call made: entry point, type parameters, request
    executes,    \* how many times client.execute(request) was called
    executed,    \* what client.execute resolved to
    got_status,  \* the status of the response client.execute resolved to
    reads,       \* how many times response.text() was called
    text,        \* what response.text() resolved to
    decoded,     \* the shapes F::from_str was called with, in order
    outcome,     \* what partial_expect resolved to
    result,      \* the Result the caller holds
    narrows,     \* how many times the caller narrowed result
    last,        \* the last narrowing: its input, expected status and receiver
    shown,       \* the last error rendered with to_string(), and the rendering
    slug_text,   \* the text to_slug is called on
    slugs,       \* the slugs made, in order: of slug_text, then of the slug before
    base_url,    \* what the client's base_url() returns
    url_path,    \* the path a request is made for
    joined,      \* what path(url_path) returned
    GIT_WORK_DIR, \* the lazy static: what CacheInRepo::work_dir() returned
    fs,          \* the file system: directories, and what each file holds
    now,         \* the time is_expired reads
    cpc,         \* where each caller of the cache is: "ready", "make_new", "panicked"
    ccall,       \* the call each caller made last, and what its file held then
    cret,        \* what that call returned, once it has
    ncalls,      \* how many calls each caller made
    clog         \* the calls that ended, in the order they ended

vars == <<pc, call, executes, executed, got_status, reads, text, decoded,
          outcome, result, narrows, last, shown, slug_text, slugs,
          base_url, url_path, joined,
          GIT_WORK_DIR, fs, now, cpc, ccall, cret, ncalls, clog>>

api_vars == <<pc, call, executes, executed, got_status, reads, text, decoded,
              outcome, result, narrows, last, shown>>
strings_vars == <<slug_text, slugs>>
path_vars == <<base_url, url_path, joined>>

\* What the entry points of ExpectResp, of Slug and of ApiClient::path leave
\* alone.
cache_vars == <<GIT_WORK_DIR, fs, now, cpc, ccall, cret, ncalls, clog>>
beside_expect == <<strings_vars, path_vars, cache_vars>>
beside_strings == <<api_vars, path_vars, cache_vars>>
beside_path == <<api_vars, strings_vars, cache_vars>>
beside_cache == <<api_vars, strings_vars, path_vars>>

\* No file is there, and nothing calls the cache.
CacheIdle ==
    /\ GIT_WORK_DIR = Ok(<<"repo">>)
    /\ fs = [dirs |-> {}, files |-> [f \in FilePaths |-> None]]
    /\ now = 0
    /\ cpc = [p \in Procs |-> "unused"]
    /\ ccall = [p \in Procs |-> None]
    /\ cret = [p \in Procs |-> None]
    /\ ncalls = [p \in Procs |-> 0]
    /\ clog = <<>>

\* No path is being joined.
PathIdle == base_url = <<>> /\ url_path = <<>> /\ joined = None

\* No text is being slugged.
StringsIdle == slug_text = <<>> /\ slugs = <<>>

\* No call of an ExpectResp entry point is made.
ApiIdle ==
    /\ pc = [p \in Procs |-> "unused"]
    /\ call = [p \in Procs |-> None]
    /\ executes = [p \in Procs |-> 0]
    /\ executed = [p \in Procs |-> None]
    /\ got_status = [p \in Procs |-> None]
    /\ reads = [p \in Procs |-> 0]
    /\ text = [p \in Procs |-> None]
    /\ decoded = [p \in Procs |-> <<>>]
    /\ outcome = [p \in Procs |-> None]
    /\ result = [p \in Procs |-> None]
    /\ narrows = [p \in Procs |-> 0]
    /\ last = [p \in Procs |-> None]
    /\ shown = [p \in Procs |-> None]

Init ==
    /\ pc = [p \in Procs |-> IF p = 1 THEN "start" ELSE "unused"]
    /\ call = [p \in Procs |-> None]
    /\ executes = [p \in Procs |-> 0]
    /\ executed = [p \in Procs |-> None]
    /\ got_status = [p \in Procs |-> None]
    /\ reads = [p \in Procs |-> 0]
    /\ text = [p \in Procs |-> None]
    /\ decoded = [p \in Procs |-> <<>>]
    /\ outcome = [p \in Procs |-> None]
    /\ result = [p \in Procs |-> None]
    /\ narrows = [p \in Procs |-> 0]
    /\ last = [p \in Procs |-> None]
    /\ shown = [p \in Procs |-> None]
    /\ StringsIdle
    /\ PathIdle
    /\ CacheIdle

\* partial_expect resolves to r, and the entry point c.fn returns.
Return(p, c, r) ==
    /\ pc' = [pc EXCEPT ![p] = "done"]
    /\ outcome' = [outcome EXCEPT ![p] = Some(r)]
    /\ result' = [result EXCEPT ![p] = Some(returned(c, r))]

\* A call among calls, up to the first await: build_split, then
\* client.execute(request).
CallFrom(p, calls) ==
    /\ pc[p] = "start"
    /\ \E c \in calls :
        /\ call' = [call EXCEPT ![p] = Some(c)]
        /\ IF IsErr(c.request)
           THEN /\ Return(p, c, Err(BuildRequest(c.request.v)))
                /\ UNCHANGED executes
           ELSE /\ executes' = [executes EXCEPT ![p] = @ + 1]
                /\ pc' = [pc EXCEPT ![p] = "execute"]
                /\ UNCHANGED <<outcome, result>>
    /\ UNCHANGED <<beside_expect, shown, executed, got_status, reads, text, decoded, narrows, last>>

Call(p) == CallFrom(p, Calls)

\* ExecuteResolves, were a failed submit tried again.
ExecuteResolves_retry(p) ==
    /\ pc[p] = "execute"
    /\ \E response \in {Ok(s) : s \in StatusCodes} \cup {Err(e) : e \in ReqwestErrors} :
        /\ executed' = [executed EXCEPT ![p] = Some(response)]
        /\ IF IsErr(response)
           THEN /\ executes[p] < 3
                /\ executes' = [executes EXCEPT ![p] = @ + 1]
                /\ UNCHANGED <<pc, got_status, reads, outcome, result>>
           ELSE /\ got_status' = [got_status EXCEPT ![p] = Some(response.v)]
                /\ reads' = [reads EXCEPT ![p] = @ + 1]
                /\ pc' = [pc EXCEPT ![p] = "text"]
                /\ UNCHANGED <<executes, outcome, result>>
    /\ UNCHANGED <<beside_expect, shown, call, text, decoded, narrows, last>>

\* client.execute resolves; on a response, its status is read and
\* response.text() is awaited.
ExecuteResolves(p) ==
    /\ pc[p] = "execute"
    /\ \E response \in {Ok(s) : s \in StatusCodes} \cup {Err(e) : e \in ReqwestErrors} :
        /\ executed' = [executed EXCEPT ![p] = Some(response)]
        /\ IF IsErr(response)
           THEN /\ Return(p, call[p][1], Err(ExecuteRequest(response.v)))
                /\ UNCHANGED <<got_status, reads>>
           ELSE /\ got_status' = [got_status EXCEPT ![p] = Some(response.v)]
                /\ reads' = [reads EXCEPT ![p] = @ + 1]
                /\ pc' = [pc EXCEPT ![p] = "text"]
                /\ UNCHANGED <<outcome, result>>
    /\ UNCHANGED <<beside_expect, shown, call, executes, text, decoded, narrows, last>>

\* TextResolves, were a failed body read mapped to ExecuteRequest.
TextResolves_wrong_variant(p) ==
    /\ pc[p] = "text"
    /\ \E t \in {Ok(x) : x \in Texts} \cup {Err(e) : e \in ReqwestErrors} :
        /\ text' = [text EXCEPT ![p] = Some(t)]
        /\ IF IsErr(t)
           THEN /\ Return(p, call[p][1], Err(ExecuteRequest(t.v)))
                /\ UNCHANGED decoded
           ELSE LET c == call[p][1]
                    ctx == RespContext(c.request.v.method, c.request.v.url,
                                       got_status[p][1], t.v)
                    r == classify(ctx, c.OkT, c.ErrT)
                IN  /\ decoded' = [decoded EXCEPT ![p] = r.decoded]
                    /\ Return(p, c, r.result)
    /\ UNCHANGED <<beside_expect, shown, call, executes, executed, got_status, reads, narrows, last>>

\* TextResolves, were got_status kept in a slot the calls share, which the
\* first response fills.
TextResolves_shared_status(p) ==
    /\ pc[p] = "text"
    /\ \E t \in {Ok(x) : x \in Texts} \cup {Err(e) : e \in ReqwestErrors} :
        /\ text' = [text EXCEPT ![p] = Some(t)]
        /\ IF IsErr(t)
           THEN /\ Return(p, call[p][1], Err(ReadRespBodyText(t.v)))
                /\ UNCHANGED decoded
           ELSE LET c == call[p][1]
                    q == CHOOSE q \in Procs :
                            /\ got_status[q] # None
                            /\ \A r \in Procs : got_status[r] # None => q =< r
                    ctx == RespContext(c.request.v.method, c.request.v.url,
                                       got_status[q][1], t.v)
                    r == classify(ctx, c.OkT, c.ErrT)
                IN  /\ decoded' = [decoded EXCEPT ![p] = r.decoded]
                    /\ Return(p, c, r.result)
    /\ UNCHANGED <<beside_expect, shown, call, executes, executed, got_status, reads, narrows, last>>

\* TextResolves, were the decoded body unwrapped: a text that does not decode
\* panics, and the call never returns.
TextResolves_unwrap(p) ==
    /\ pc[p] = "text"
    /\ \E t \in {Ok(x) : x \in Texts} \cup {Err(e) : e \in ReqwestErrors} :
        /\ text' = [text EXCEPT ![p] = Some(t)]
        /\ IF IsErr(t)
           THEN /\ Return(p, call[p][1], Err(ReadRespBodyText(t.v)))
                /\ UNCHANGED decoded
           ELSE LET c == call[p][1]
                    ctx == RespContext(c.request.v.method, c.request.v.url,
                                       got_status[p][1], t.v)
                    r == classify(ctx, c.OkT, c.ErrT)
                IN  /\ decoded' = [decoded EXCEPT ![p] = r.decoded]
                    /\ IF IsErr(r.result) /\ r.result.v.tag = "DeserializeError"
                       THEN /\ pc' = [pc EXCEPT ![p] = "panicked"]
                            /\ UNCHANGED <<outcome, result>>
                       ELSE Return(p, c, r.result)
    /\ UNCHANGED <<beside_expect, shown, call, executes, executed, got_status, reads, narrows, last>>

\* TextResolves, were a failed body read taken as an empty text
\* (unwrap_or_default) and the response classified all the same.
TextResolves_default_text(p) ==
    /\ pc[p] = "text"
    /\ \E t \in {Ok(x) : x \in Texts} \cup {Err(e) : e \in ReqwestErrors} :
        /\ text' = [text EXCEPT ![p] = Some(t)]
        /\ LET c == call[p][1]
               ctx == RespContext(c.request.v.method, c.request.v.url,
                                  got_status[p][1], IF IsOk(t) THEN t.v ELSE TextEmpty)
               r == classify(ctx, c.OkT, c.ErrT)
           IN  /\ decoded' = [decoded EXCEPT ![p] = r.decoded]
               /\ Return(p, c, r.result)
    /\ UNCHANGED <<beside_expect, shown, call, executes, executed, got_status, reads, narrows, last>>

\* response.text() resolves; on a text, the context is built and the body decoded.
TextResolves(p) ==
    /\ pc[p] = "text"
    /\ \E t \in {Ok(x) : x \in Texts} \cup {Err(e) : e \in ReqwestErrors} :
        /\ text' = [text EXCEPT ![p] = Some(t)]
        /\ IF IsErr(t)
           THEN /\ Return(p, call[p][1], Err(ReadRespBodyText(t.v)))
                /\ UNCHANGED decoded
           ELSE LET c == call[p][1]
                    ctx == RespContext(c.request.v.method, c.request.v.url,
                                       got_status[p][1], t.v)
                    r == classify(ctx, c.OkT, c.ErrT)
                IN  /\ decoded' = [decoded EXCEPT ![p] = r.decoded]
                    /\ Return(p, c, r.result)
    /\ UNCHANGED <<beside_expect, shown, call, executes, executed, got_status, reads, narrows, last>>

\* The caller narrows the error it holds: err.try_into_err_resp(expect).
NarrowErr(p) ==
    /\ pc[p] = "done"
    /\ narrows[p] < MaxNarrow
    /\ IsErr(result[p][1])
    /\ \E e \in StatusCodes :
        /\ result' = [result EXCEPT ![p] = Some(try_into_err_resp(result[p][1].v, e))]
        /\ last' = [last EXCEPT ![p] =
                        Some([input |-> result[p][1], expect |-> e, via |-> "ClientErr"])]
    /\ narrows' = [narrows EXCEPT ![p] = @ + 1]
    /\ UNCHANGED <<beside_expect, shown, pc, call, executes, executed, got_status, reads, text, decoded,
                   outcome>>

\* The caller narrows the result it holds: result.try_into_err_resp(expect).
NarrowResult(p) ==
    /\ pc[p] = "done"
    /\ narrows[p] < MaxNarrow
    /\ \E e \in StatusCodes :
        /\ result' = [result EXCEPT ![p] = Some(result_try_into_err_resp(result[p][1], e))]
        /\ last' = [last EXCEPT ![p] =
                        Some([input |-> result[p][1], expect |-> e, via |-> "ResultExt"])]
    /\ narrows' = [narrows EXCEPT ![p] = @ + 1]
    /\ UNCHANGED <<beside_expect, shown, pc, call, executes, executed, got_status, reads, text, decoded,
                   outcome>>

\* The caller renders the error it holds: err.to_string().
Render(p) ==
    /\ pc[p] = "done"
    /\ IsErr(result[p][1])
    /\ shown' = [shown EXCEPT ![p] =
                    Some([err |-> result[p][1].v, out |-> fmt(result[p][1].v)])]
    /\ UNCHANGED <<beside_expect, pc, call, executes, executed, got_status, reads, text, decoded,
                   outcome, result, narrows, last>>

Next ==
    \E p \in Procs :
        \/ Call(p)
        \/ ExecuteResolves(p)
        \/ TextResolves(p)
        \/ NarrowErr(p)
        \/ NarrowResult(p)

Spec == Init /\ [][Next]_vars

\* The transport answers every await: a pending client.execute and a pending
\* response.text() each resolve, with a value or with an error.
Answered ==
    \A p \in Procs : WF_vars(ExecuteResolves(p)) /\ WF_vars(TextResolves(p))

SpecLive == Init /\ [][Next]_vars /\ Answered

\* The calls, with the errors they end in rendered for the caller.
NextShown == Next \/ \E p \in Procs : Render(p)

SpecShown == Init /\ [][NextShown]_vars

\* Two calls of partial_expect in flight at once, to the same or to
\* different endpoints, interleaved at their awaits in every order.
PairCalls == {c \in Calls : c.fn = "partial_expect"}

CallPair(p) == CallFrom(p, PairCalls)

InitPair ==
    /\ pc = [p \in Procs |-> "start"]
    /\ call = [p \in Procs |-> None]
    /\ executes = [p \in Procs |-> 0]
    /\ executed = [p \in Procs |-> None]
    /\ got_status = [p \in Procs |-> None]
    /\ reads = [p \in Procs |-> 0]
    /\ text = [p \in Procs |-> None]
    /\ decoded = [p \in Procs |-> <<>>]
    /\ outcome = [p \in Procs |-> None]
    /\ result = [p \in Procs |-> None]
    /\ narrows = [p \in Procs |-> 0]
    /\ last = [p \in Procs |-> None]
    /\ shown = [p \in Procs |-> None]
    /\ StringsIdle
    /\ PathIdle
    /\ CacheIdle

NextPair ==
    \E p \in Procs :
        \/ CallPair(p)
        \/ ExecuteResolves(p)
        \/ TextResolves(p)

SpecPair == InitPair /\ [][NextPair]_vars

----------------------------------------------------------------------------
\* What was observed of a call, read off the transport's answers.

Done(p) == pc[p] = "done"
TheCall(p) == call[p][1]
Outcome(p) == outcome[p][1]
Held(p) == result[p][1]

\* Build, submit and body read all succeeded.
Transported(p) ==
    /\ Done(p)
    /\ IsOk(TheCall(p).request)
    /\ got_status[p] # None
    /\ text[p] # None
    /\ IsOk(text[p][1])

Status(p) == got_status[p][1]
Body(p) == text[p][1].v
Is2xx(status) == status \in 200..299

\* The context of the response as observed: the request's method and URL,
\* the response's status, the text read.
Observed(p) ==
    [method |-> TheCall(p).request.v.method, url |-> TheCall(p).request.v.url,
     got_status |-> Status(p), response_text |-> Body(p)]

\* C1: when build, submit and body read succeed, the status is 2xx and the
\* text decodes as the Ok shape, partial_expect resolves to Ok with exactly
\* the decoded value and a context whose status is the observed status.
C1_OkOutcome ==
    \A p \in Procs :
        (Transported(p) /\ Is2xx(Status(p))
            /\ IsOk(from_str(TheCall(p).OkT, Body(p))))
        => /\ IsOk(Outcome(p))
           /\ Outcome(p).v.ok_body = from_str(TheCall(p).OkT, Body(p)).v
           /\ Outcome(p).v.context.got_status = Status(p)

C1_Witness ==
    \E p \in Procs :
        /\ Transported(p) /\ Status(p) = 200 /\ Body(p) = TextAvailable
        /\ TheCall(p).OkT = "Value"
        /\ IsOk(Outcome(p))
        /\ Outcome(p).v.ok_body.t = "o"
        /\ Outcome(p).v.ok_body.members["status"].s = "available"

\* C2: when the transport steps succeed, the status is not 2xx and the text
\* decodes as the error shape, partial_expect resolves to ErrorResponse with
\* exactly the decoded error value and the response's context.
C2_StructuredError ==
    \A p \in Procs :
        (Transported(p) /\ ~Is2xx(Status(p))
            /\ IsOk(from_str(TheCall(p).ErrT, Body(p))))
        => Outcome(p) =
             Err([tag |-> "ErrorResponse", context |-> Observed(p),
                  err_body |-> from_str(TheCall(p).ErrT, Body(p)).v])

C2_Witness ==
    \E p \in Procs :
        /\ Transported(p) /\ Status(p) = 404 /\ Body(p) = TextNotFound
        /\ TheCall(p).ErrT = "CustomApiError"
        /\ IsErr(Outcome(p))
        /\ Outcome(p).v.tag = "ErrorResponse"
        /\ Outcome(p).v.err_body = [message |-> "not found"]

\* C3: the status alone chooses the shape and there is at most one decode
\* per call: the error shape on a non-2xx status, the Ok shape on a 2xx
\* status; a text that only the other shape accepts gives DeserializeError.
C3_OneDecodeByStatus ==
    \A p \in Procs :
        /\ Len(decoded[p]) =< 1
        /\ Transported(p) =>
            /\ decoded[p] = IF Is2xx(Status(p)) THEN <<TheCall(p).OkT>>
                             ELSE <<TheCall(p).ErrT>>
            /\ (~Is2xx(Status(p))
                    /\ IsOk(from_str(TheCall(p).OkT, Body(p)))
                    /\ IsErr(from_str(TheCall(p).ErrT, Body(p))))
                => (IsErr(Outcome(p)) /\ Outcome(p).v.tag = "DeserializeError")
            /\ (Is2xx(Status(p))
                    /\ IsOk(from_str(TheCall(p).ErrT, Body(p)))
                    /\ IsErr(from_str(TheCall(p).OkT, Body(p))))
                => (IsErr(Outcome(p)) /\ Outcome(p).v.tag = "DeserializeError")

\* A 404 whose text is a fine Value but no CustomApiError.
C3_Witness ==
    \E p \in Procs :
        /\ Transported(p) /\ Status(p) = 404 /\ Body(p) = TextAvailable
        /\ TheCall(p).OkT = "Value" /\ TheCall(p).ErrT = "CustomApiError"
        /\ decoded[p] = <<"CustomApiError">>
        /\ Outcome(p).v.tag = "DeserializeError"

\* C4: a 2xx response whose text does not decode as the Ok shape gives
\* DeserializeError with the context and the decode error, never Ok.
C4_OkDecodeFailure ==
    \A p \in Procs :
        (Transported(p) /\ Is2xx(Status(p))
            /\ IsErr(from_str(TheCall(p).OkT, Body(p))))
        => Outcome(p) =
             Err([tag |-> "DeserializeError", context |-> Observed(p),
                  deserialize_error |-> from_str(TheCall(p).OkT, Body(p)).v])

C4_Witness ==
    \E p \in Procs :
        /\ Transported(p) /\ Status(p) = 204 /\ Body(p) = TextEmpty
        /\ IsErr(Outcome(p))
        /\ Outcome(p).v.tag = "DeserializeError"
        /\ Outcome(p).v.deserialize_error = "EOF while parsing a value"

\* C5: a non-2xx response whose text does not decode as the error shape
\* gives DeserializeError whose context holds the text exactly as read.
C5_ErrDecodeFailureKeepsText ==
    \A p \in Procs :
        (Transported(p) /\ ~Is2xx(Status(p))
            /\ IsErr(from_str(TheCall(p).ErrT, Body(p))))
        => /\ IsErr(Outcome(p))
           /\ Outcome(p).v.tag = "DeserializeError"
           /\ Outcome(p).v.context.response_text = Body(p)

C5_Witness ==
    \E p \in Procs :
        /\ Transported(p) /\ Status(p) = 400 /\ Body(p) = TextBadType
        /\ TheCall(p).ErrT = "CustomApiError"
        /\ Outcome(p).v.tag = "DeserializeError"
        /\ Outcome(p).v.context.response_text = TextBadType

\* C6: the request is submitted at most once per call: once when building
\* succeeded, never when it failed, and never again after a failure.
C6_SubmittedOnce ==
    \A p \in Procs :
        /\ executes[p] =< 1
        /\ call[p] = None => executes[p] = 0
        /\ call[p] # None =>
            executes[p] = IF IsOk(TheCall(p).request) THEN 1 ELSE 0

\* A body-read failure, after which the caller went on to narrow the error.
C6_Witness ==
    \E p \in Procs :
        /\ Done(p) /\ narrows[p] > 0
        /\ text[p] # None /\ IsErr(text[p][1])
        /\ executes[p] = 1

\* C7: the stage that fails decides the outcome and stops the pipeline:
\* build failure, BuildRequest and no submit; submit failure, ExecuteRequest
\* and no body read; body-read failure, ReadRespBodyText and no decode; and
\* none of the three has a context.
C7_FailingStageStops ==
    \A p \in Procs : Done(p) =>
        /\ IsErr(TheCall(p).request) =>
            /\ Outcome(p) = Err([tag |-> "BuildRequest", e |-> TheCall(p).request.v])
            /\ executes[p] = 0 /\ reads[p] = 0 /\ decoded[p] = <<>>
        /\ (IsOk(TheCall(p).request) /\ got_status[p] = None) =>
            /\ IsErr(Outcome(p)) /\ Outcome(p).v.tag = "ExecuteRequest"
            /\ executes[p] = 1 /\ reads[p] = 0 /\ decoded[p] = <<>>
        /\ (text[p] # None /\ IsErr(text[p][1])) =>
            /\ Outcome(p) = Err([tag |-> "ReadRespBodyText", e |-> text[p][1].v])
            /\ reads[p] = 1 /\ decoded[p] = <<>>
        /\ (IsErr(Outcome(p))
                /\ Outcome(p).v.tag \in {"BuildRequest", "ExecuteRequest", "ReadRespBodyText"})
            => context(Outcome(p).v) = None

C7_Witness ==
    \E p \in Procs :
        /\ Done(p) /\ IsOk(TheCall(p).request) /\ got_status[p] = None
        /\ Outcome(p).v.tag = "ExecuteRequest"
        /\ reads[p] = 0

\* The context an error carries, read off its fields.
Carried(e) ==
    CASE e.tag \in {"ExpectedStatus", "DeserializeError", "ErrorResponse"} -> <<e.context>>
      [] e.tag = "ExpectedErrorResponse" -> e.context
      [] OTHER -> <<>>

Narrowed(p) == last[p] # None
Input(p) == last[p][1].input
Expect(p) == last[p][1].expect

\* C8: narrowing an ErrorResponse with the status of its context returns, as
\* success, the decoded error value it carried, whether the error itself or
\* an Err result holding it is narrowed.
C8_NarrowMatching ==
    \A p \in Procs :
        (Narrowed(p) /\ IsErr(Input(p)) /\ Input(p).v.tag = "ErrorResponse"
            /\ Expect(p) = Input(p).v.context.got_status)
        => Held(p) = Ok(Input(p).v.err_body)

C8_Witness ==
    \E p \in Procs :
        /\ Narrowed(p) /\ last[p][1].via = "ResultExt"
        /\ IsErr(Input(p)) /\ Input(p).v.tag = "ErrorResponse"
        /\ Input(p).v.context.got_status = 400 /\ Expect(p) = 400
        /\ Held(p) = Ok([message |-> "some error message"])

\* C9: narrowing an ErrorResponse with a status other than its context's
\* returns ExpectedStatus with the expected status and the original context;
\* the decoded error value is not returned.
C9_NarrowMismatch ==
    \A p \in Procs :
        (Narrowed(p) /\ IsErr(Input(p)) /\ Input(p).v.tag = "ErrorResponse"
            /\ Expect(p) # Input(p).v.context.got_status)
        => Held(p) = Err([tag |-> "ExpectedStatus", context |-> Input(p).v.context,
                          expected_status |-> Expect(p)])

C9_Witness ==
    \E p \in Procs :
        /\ Narrowed(p) /\ last[p][1].via = "ClientErr"
        /\ IsErr(Input(p)) /\ Input(p).v.tag = "ErrorResponse"
        /\ Input(p).v.context.got_status = 400 /\ Expect(p) = 404
        /\ Held(p).v.tag = "ExpectedStatus"
        /\ Held(p).v.expected_status = 404
        /\ Held(p).v.context.got_status = 400

\* C10: whatever the variant of an error that carries a context, narrowing it
\* with a status other than the context's gives ExpectedStatus with that
\* context and the new expected status.
C10_MismatchBeforeVariant ==
    \A p \in Procs :
        (Narrowed(p) /\ IsErr(Input(p)) /\ Carried(Input(p).v) # <<>>
            /\ Expect(p) # Carried(Input(p).v)[1].got_status)
        => Held(p) = Err([tag |-> "ExpectedStatus",
                          context |-> Carried(Input(p).v)[1],
                          expected_status |-> Expect(p)])

\* An ExpectedErrorResponse with a context (expect_err_resp met a 200),
\* narrowed with 404.
C10_Witness ==
    \E p \in Procs :
        /\ Narrowed(p) /\ IsErr(Input(p))
        /\ Input(p).v.tag = "ExpectedErrorResponse"
        /\ Input(p).v.context # None
        /\ Input(p).v.context[1].got_status = 200 /\ Expect(p) = 404
        /\ Held(p).v.tag = "ExpectedStatus"

TransportFailures == {"BuildRequest", "ExecuteRequest", "ReadRespBodyText"}

\* The context of e is populated with the text that was read.
Populated(p, e) ==
    /\ context(e) # None
    /\ Transported(p)
    /\ context(e)[1].response_text = Body(p)

\* C11, as claimed: every outcome other than the three transport failures,
\* from the classifier, the short-hands or narrowing, has a populated context
\* holding the text that was decoded.
C11_AlwaysContext ==
    \A p \in Procs : Done(p) =>
        /\ IsOk(Outcome(p)) => Outcome(p).v.context.response_text = Body(p)
        /\ (IsErr(Outcome(p)) /\ Outcome(p).v.tag \notin TransportFailures)
            => Populated(p, Outcome(p).v)
        /\ (IsErr(Held(p)) /\ Held(p).v.tag \notin TransportFailures)
            => Populated(p, Held(p).v)

\* C11, amended: the same, except for the ExpectedErrorResponse without a
\* context, which arises only from narrowing a result that was Ok (and from
\* narrowing that error again).
C11_ContextUnlessNarrowedOk ==
    \A p \in Procs : Done(p) =>
        /\ IsOk(Outcome(p)) => Outcome(p).v.context.response_text = Body(p)
        /\ (IsErr(Outcome(p)) /\ Outcome(p).v.tag \notin TransportFailures)
            => Populated(p, Outcome(p).v)
        /\ (IsErr(Held(p)) /\ Held(p).v.tag \notin TransportFailures)
            => \/ Populated(p, Held(p).v)
               \/ /\ Held(p).v = [tag |-> "ExpectedErrorResponse", context |-> <<>>]
                  /\ Narrowed(p)
                  /\ \/ IsOk(Input(p)) /\ last[p][1].via = "ResultExt"
                     \/ Input(p) = Held(p)

\* expect_err_resp met a 204 and returned ExpectedErrorResponse with the
\* context of that response.
C11_Witness ==
    \E p \in Procs :
        /\ Transported(p) /\ TheCall(p).fn = "expect_err_resp"
        /\ Status(p) = 204 /\ Body(p) = TextAvailable
        /\ Held(p).v.tag = "ExpectedErrorResponse"
        /\ context(Held(p).v) = <<Observed(p)>>

\* C12: narrowing an ExpectedStatus again with the expected status that
\* produced it gives the same ExpectedStatus: same context, same expected
\* status, the status still mismatched.
C12_MismatchIdempotent ==
    \A p \in Procs :
        (Narrowed(p) /\ IsErr(Input(p)) /\ Input(p).v.tag = "ExpectedStatus"
            /\ Expect(p) = Input(p).v.expected_status)
        => /\ Held(p) = Input(p)
           /\ Held(p).v.expected_status # Held(p).v.context.got_status

C12_Witness ==
    \E p \in Procs :
        /\ Narrowed(p) /\ narrows[p] = 2
        /\ IsErr(Input(p)) /\ Input(p).v.tag = "ExpectedStatus"
        /\ Input(p).v.context.got_status = 404
        /\ Input(p).v.expected_status = 400 /\ Expect(p) = 400
        /\ Held(p) = Input(p)

\* C13, as claimed: narrowing an ExpectedStatus with the status of its
\* context succeeds.
C13_RecheckSucceeds ==
    \A p \in Procs :
        (Narrowed(p) /\ IsErr(Input(p)) /\ Input(p).v.tag = "ExpectedStatus"
            /\ Expect(p) = Input(p).v.context.got_status)
        => IsOk(Held(p))

\* C13, amended: narrowing an ExpectedStatus with the status of its context
\* passes the status check and returns that ExpectedStatus unchanged, as a
\* failure, with the expected status it recorded.
C13_RecheckReturnsSame ==
    \A p \in Procs :
        (Narrowed(p) /\ IsErr(Input(p)) /\ Input(p).v.tag = "ExpectedStatus"
            /\ Expect(p) = Input(p).v.context.got_status)
        => /\ Held(p) = Input(p)
           /\ IsErr(Held(p))
           /\ Held(p).v.expected_status # Expect(p)

C13_Witness ==
    \E p \in Procs :
        /\ Narrowed(p) /\ narrows[p] = 2
        /\ IsErr(Input(p)) /\ Input(p).v.tag = "ExpectedStatus"
        /\ Input(p).v.context.got_status = 404
        /\ Input(p).v.expected_status = 400 /\ Expect(p) = 404
        /\ Held(p) = Input(p)

\* The result narrowed last was itself returned by a narrowing that
\* extracted the decoded error value.
Extracted(p) == Narrowed(p) /\ narrows[p] >= 2 /\ IsOk(Input(p))

\* C14, as claimed: narrowing a successful extraction again with the same
\* expected status (the status of the response) returns the same result.
C14_ExtractionIdempotent ==
    \A p \in Procs :
        (Extracted(p) /\ Transported(p) /\ Expect(p) = Status(p))
        => Held(p) = Input(p)

\* C14, amended: narrowing a successful extraction again, with any expected
\* status, returns the failure ExpectedErrorResponse without a context.
C14_ExtractionThenExpectedError ==
    \A p \in Procs :
        Extracted(p)
        => Held(p) = Err([tag |-> "ExpectedErrorResponse", context |-> <<>>])

C14_Witness ==
    \E p \in Procs :
        /\ Extracted(p) /\ Transported(p)
        /\ Status(p) = 404 /\ Expect(p) = 404
        /\ Input(p) = Ok([message |-> "not found"])
        /\ Held(p).v.tag = "ExpectedErrorResponse"

\* C15: narrowing returns its input unchanged, as a failure, when the input
\* is no ErrorResponse and no status mismatch is detected: for every expected
\* status when the error has no context, and for the status of its context
\* when it has one.
C15_PassThrough ==
    \A p \in Procs :
        (Narrowed(p) /\ IsErr(Input(p)) /\ Input(p).v.tag # "ErrorResponse"
            /\ (Carried(Input(p).v) = <<>>
                 \/ Carried(Input(p).v)[1].got_status = Expect(p)))
        => Held(p) = Input(p)

\* A DeserializeError narrowed with the status of its context.
C15_Witness ==
    \E p \in Procs :
        /\ Narrowed(p) /\ IsErr(Input(p))
        /\ Input(p).v.tag = "DeserializeError"
        /\ Input(p).v.context.got_status = 400 /\ Expect(p) = 400
        /\ Held(p) = Input(p)

\* The entry point has returned and the caller has not narrowed yet.
Returned(p) == Done(p) /\ narrows[p] = 0

\* C16: expect_err_resp(expect) returns ExpectedErrorResponse with the
\* response's context when partial_expect resolved to Ok, whatever the
\* expected status; and what narrowing the error with expect returns when it
\* resolved to an error.
C16_ExpectErrResp ==
    \A p \in Procs :
        (Returned(p) /\ TheCall(p).fn = "expect_err_resp")
        => /\ IsOk(Outcome(p)) =>
                Held(p) = Err([tag |-> "ExpectedErrorResponse",
                               context |-> <<Observed(p)>>])
           /\ IsErr(Outcome(p)) =>
                /\ Held(p) = try_into_err_resp(Outcome(p).v, TheCall(p).expect[1])
                /\ (Outcome(p).v.tag = "ErrorResponse"
                        /\ Status(p) = TheCall(p).expect[1])
                    => Held(p) = Ok(Outcome(p).v.err_body)
                /\ (Outcome(p).v.tag \in {"ErrorResponse", "DeserializeError"}
                        /\ Status(p) # TheCall(p).expect[1])
                    => Held(p) = Err([tag |-> "ExpectedStatus", context |-> Observed(p),
                                      expected_status |-> TheCall(p).expect[1]])

\* expect_err_resp(404) met a 200 whose text decodes.
C16_Witness ==
    \E p \in Procs :
        /\ Returned(p) /\ TheCall(p).fn = "expect_err_resp"
        /\ TheCall(p).expect = <<404>> /\ Transported(p) /\ Status(p) = 200
        /\ IsOk(Outcome(p))
        /\ Held(p).v.tag = "ExpectedErrorResponse"
        /\ Held(p).v.context = <<Observed(p)>>

\* C17: expect_ok returns the decoded Ok body exactly when partial_expect
\* resolved to Ok, and otherwise the error partial_expect resolved to,
\* unchanged.
C17_ExpectOk ==
    \A p \in Procs :
        (Returned(p) /\ TheCall(p).fn = "expect_ok")
        => /\ IsOk(Held(p)) <=> IsOk(Outcome(p))
           /\ IsOk(Outcome(p)) =>
                Held(p) = Ok(from_str(TheCall(p).OkT, Body(p)).v)
           /\ IsErr(Outcome(p)) => Held(p) = Outcome(p)

C17_Witness ==
    \E p \in Procs :
        /\ Returned(p) /\ TheCall(p).fn = "expect_ok"
        /\ TheCall(p).OkT = "CustomApiError"
        /\ Transported(p) /\ Status(p) = 200 /\ Body(p) = TextNotFound
        /\ Held(p) = Ok([message |-> "not found"])

\* What partial_expect resolves to when the call c runs alone and the
\* transport answers client.execute with ex and response.text() with tx:
\* the first stage that fails, else the decoded body.
Alone(c, ex, tx) ==
    IF IsErr(c.request) THEN Err([tag |-> "BuildRequest", e |-> c.request.v])
    ELSE IF IsErr(ex[1]) THEN Err([tag |-> "ExecuteRequest", e |-> ex[1].v])
    ELSE IF IsErr(tx[1]) THEN Err([tag |-> "ReadRespBodyText", e |-> tx[1].v])
    ELSE LET ctx == [method |-> c.request.v.method, url |-> c.request.v.url,
                     got_status |-> ex[1].v, response_text |-> tx[1].v]
             shape == IF ctx.got_status \in 200..299 THEN c.OkT ELSE c.ErrT
             d == from_str(shape, ctx.response_text)
         IN  IF IsErr(d)
             THEN Err([tag |-> "DeserializeError", context |-> ctx,
                       deserialize_error |-> d.v])
             ELSE IF ctx.got_status \in 200..299
             THEN Ok([ok_body |-> d.v, context |-> ctx])
             ELSE Err([tag |-> "ErrorResponse", context |-> ctx, err_body |-> d.v])

\* C18: however two calls interleave at client.execute and response.text(),
\* each resolves to what it resolves to alone on the same answers of the
\* transport, context included.
C18_NoInterference ==
    \A p \in Procs :
        Done(p) => outcome[p] = Some(Alone(TheCall(p), executed[p], text[p]))

\* Two calls to the same endpoint, one answered with a 404 and the other
\* with a 200.
C18_Witness ==
    /\ Done(1) /\ Done(2)
    /\ TheCall(1).request = TheCall(2).request
    /\ Transported(1) /\ Transported(2)
    /\ Status(1) = 404 /\ Status(2) = 200
    /\ Body(1) = TextNotFound /\ Body(2) = TextAvailable
    /\ Outcome(1).v.tag = "ErrorResponse"
    /\ IsOk(Outcome(2))

Outcomes ==
    {"Ok", "ErrorResponse", "DeserializeError",
     "BuildRequest", "ExecuteRequest", "ReadRespBodyText"}

OutcomeKind(r) == IF IsOk(r) THEN "Ok" ELSE r.v.tag

\* C19: when the transport answers both awaits, every call made ends with
\* one outcome of the closed set, which then stays; the request was
\* submitted and the body read at most once on the way.
C19_Terminates ==
    /\ \A p \in Procs : (call[p] # None) ~> Done(p)
    /\ [](\A p \in Procs :
            /\ Done(p) <=> outcome[p] # None
            /\ Done(p) => /\ OutcomeKind(Outcome(p)) \in Outcomes
                          /\ executes[p] =< 1 /\ reads[p] =< 1)
    /\ [][\A p \in Procs : outcome[p] # None => outcome'[p] = outcome[p]]_vars

\* A redirect whose body is cut short still ends the call, with an error.
C19_Witness ==
    \E p \in Procs :
        /\ Done(p) /\ Transported(p)
        /\ Status(p) = 302 /\ Body(p) = TextTruncated
        /\ OutcomeKind(Outcome(p)) = "DeserializeError"

\* ---- strings: the caller of Slug ----

\* to_slug on the text, then on the slug it returned.
ToSlug ==
    /\ Len(slugs) < 2
    /\ slugs' = Append(slugs, to_slug(IF slugs = <<>> THEN slug_text
                                      ELSE slugs[Len(slugs)]))
    /\ UNCHANGED <<beside_strings, slug_text>>

InitSlug ==
    /\ ApiIdle
    /\ PathIdle
    /\ CacheIdle
    /\ slug_text \in StrTexts
    /\ slugs = <<>>

NextSlug == ToSlug

SpecSlug == InitSlug /\ [][NextSlug]_vars

\* ---- api-client-utils: the caller of ApiClient::path ----

\* self.path(url_path), as get and post call it.
Path ==
    /\ joined = None
    /\ joined' = Some(path(base_url, url_path))
    /\ UNCHANGED <<beside_path, base_url, url_path>>

InitPath ==
    /\ ApiIdle
    /\ StringsIdle
    /\ CacheIdle
    /\ base_url \in UrlTexts
    /\ url_path \in UrlTexts
    /\ joined = None

NextPath == Path

SpecPath == InitPath /\ [][NextPath]_vars

\* ---- file-cache: the callers of the cache ----

MaxCalls == 2
MaxNow == 2

\* The values make_new can be called to make, and what it can resolve to.
NewValues(T) ==
    CASE T = "CacheCounter" -> {CacheCounter(1), CacheCounter(2)}
      [] T = "Unit" -> {Unit}

\* cached_or_default passes async { Ok(Self::default()) }.
MakeNewResults(c) ==
    IF c.fn = "next" THEN {Ok(CacheCounter(0))}
    ELSE {Ok(v) : v \in NewValues(c.T)} \cup {Err("make_new failed")}

\* The calls that go through from_file_or_save_new.
LoadCalls ==
    {[fn |-> "from_file_or_save_new", file_id |-> id, T |-> T] :
        id \in FileIds, T \in {"CacheCounter", "Unit"}}
    \cup {[fn |-> "next", file_id |-> id, T |-> "CacheCounter"] : id \in FileIds}

Tokens == {Token(7, e) : e \in 1..MaxNow}

\* The file a call is about, when its cache directory is found.
FileOf(c) ==
    CASE c.fn = "from_cache" -> Ok(c.file)
      [] c.fn = "to_cache" ->
            file_path(RepoOrXdg_cache_dir(GIT_WORK_DIR), relative_path_str(c.self))
      [] OTHER -> file_path(CacheInRepo_cache_dir(GIT_WORK_DIR), c.file_id)

\* What the file of call c holds in the file system f.
Holds(f, c) == IF IsErr(FileOf(c)) THEN None ELSE f.files[FileOf(c).v]

\* The call c of caller p ends: out.ret is what it returns, None when it
\* panics; new is what make_new resolved to, None when it was not awaited.
Finish(p, c, before, began, new, out) ==
    /\ fs' = out.fs
    /\ cret' = [cret EXCEPT ![p] = out.ret]
    /\ cpc' = [cpc EXCEPT ![p] = IF out.ret = None THEN "panicked" ELSE "ready"]
    /\ clog' = Append(clog, [p |-> p, call |-> c, new |-> new, ret |-> out.ret,
                             before |-> before, after |-> Holds(out.fs, c),
                             began |-> began, dirs |-> fs.dirs, now |-> now])

\* A call among calls that goes through from_file_or_save_new, up to
\* make_new.await.
FromFileOrSaveNewFrom(p, calls, most) ==
    /\ cpc[p] = "ready"
    /\ ncalls[p] < most
    /\ \E c \in calls :
        LET l == load_or_await(c.T, fs, GIT_WORK_DIR, c.file_id) IN
        /\ ccall' = [ccall EXCEPT ![p] = Some([call |-> c, before |-> Holds(fs, c),
                                                began |-> Len(clog)])]
        /\ IF l.await
           THEN /\ cpc' = [cpc EXCEPT ![p] = "make_new"]
                /\ cret' = [cret EXCEPT ![p] = None]
                /\ UNCHANGED <<fs, clog>>
           ELSE LET out == after_load(c, fs, GIT_WORK_DIR, l.ret)
                IN  Finish(p, c, Holds(fs, c), Len(clog), None,
                           [fs |-> out.fs, ret |-> Some(out.ret)])
    /\ ncalls' = [ncalls EXCEPT ![p] = @ + 1]
    /\ UNCHANGED <<beside_cache, GIT_WORK_DIR, now>>

FromFileOrSaveNew(p) == FromFileOrSaveNewFrom(p, LoadCalls, MaxCalls)

\* make_new resolves: the new value is written and returned, and next goes
\* on with it.
MakeNewResolves(p) ==
    /\ cpc[p] = "make_new"
    /\ \E new \in MakeNewResults(ccall[p][1].call) :
        LET c == ccall[p][1].call
            saved == save_new(fs, FileOf(c).v, new)
            out == IF saved.ret = None THEN saved
                   ELSE LET o == after_load(c, saved.fs, GIT_WORK_DIR, saved.ret[1])
                        IN  [fs |-> o.fs, ret |-> Some(o.ret)]
        IN  Finish(p, c, ccall[p][1].before, ccall[p][1].began, Some(new), out)
    /\ UNCHANGED <<beside_cache, GIT_WORK_DIR, now, ccall, ncalls>>

\* Token::from_cache(file_path)
FromCache(p) ==
    /\ cpc[p] = "ready"
    /\ ncalls[p] < MaxCalls
    /\ \E file \in FilePaths :
        LET c == [fn |-> "from_cache", file |-> file, T |-> "Token"]
            out == from_cache("Token", fs, file, now)
        IN  /\ ccall' = [ccall EXCEPT ![p] = Some([call |-> c, before |-> Holds(fs, c),
                                                began |-> Len(clog)])]
            /\ Finish(p, c, Holds(fs, c), Len(clog), None,
                      [fs |-> out.fs, ret |-> Some(out.ret)])
    /\ ncalls' = [ncalls EXCEPT ![p] = @ + 1]
    /\ UNCHANGED <<beside_cache, GIT_WORK_DIR, now>>

\* token.to_cache()
ToCache(p) ==
    /\ cpc[p] = "ready"
    /\ ncalls[p] < MaxCalls
    /\ \E self \in {t \in Tokens : t.expires_at > now} :
        LET c == [fn |-> "to_cache", self |-> self, T |-> "Token"]
            out == to_cache(self, fs, GIT_WORK_DIR)
        IN  /\ ccall' = [ccall EXCEPT ![p] = Some([call |-> c, before |-> Holds(fs, c),
                                                began |-> Len(clog)])]
            /\ Finish(p, c, Holds(fs, c), Len(clog), None,
                      [fs |-> out.fs, ret |-> Some(out.ret)])
    /\ ncalls' = [ncalls EXCEPT ![p] = @ + 1]
    /\ UNCHANGED <<beside_cache, GIT_WORK_DIR, now>>

\* The program is run again after a panic, or the next task runs.
Rerun(p) ==
    /\ cpc[p] = "panicked"
    /\ cpc' = [cpc EXCEPT ![p] = "ready"]
    /\ UNCHANGED <<beside_cache, GIT_WORK_DIR, fs, now, ccall, cret, ncalls, clog>>

\* Time passes.
Tick ==
    /\ now < MaxNow
    /\ now' = now + 1
    /\ UNCHANGED <<beside_cache, GIT_WORK_DIR, fs, cpc, ccall, cret, ncalls, clog>>

\* What files can hold before the first call: left by earlier runs.
InitialContents == {<<"9">>, <<"o", "k">>, <<"{", "7", ",", "1", "}">>}

\* The file systems a run can start in: some of the cache directories, and
\* one file at most, in a directory that is there.
InitialFs ==
    UNION {
        {[dirs |-> ds, files |-> [f \in FilePaths |-> None]]}
        \cup {[dirs |-> ds,
               files |-> [f \in FilePaths |-> IF f = g THEN Some(bytes) ELSE None]] :
                g \in {h \in FilePaths : parent(h)[1] \in ds},
                bytes \in InitialContents}
        : ds \in SUBSET CacheDirs}

\* One caller, whose calls follow one another.
InitCache ==
    /\ ApiIdle
    /\ StringsIdle
    /\ PathIdle
    /\ GIT_WORK_DIR \in GitWorkDirs
    /\ fs \in InitialFs
    /\ now = 0
    /\ cpc = [p \in Procs |-> IF p = 1 THEN "ready" ELSE "unused"]
    /\ ccall = [p \in Procs |-> None]
    /\ cret = [p \in Procs |-> None]
    /\ ncalls = [p \in Procs |-> 0]
    /\ clog = <<>>

NextCache ==
    \/ \E p \in Procs :
        \/ FromFileOrSaveNew(p)
        \/ MakeNewResolves(p)
        \/ FromCache(p)
        \/ ToCache(p)
        \/ Rerun(p)
    \/ Tick

SpecCache == InitCache /\ [][NextCache]_vars

\* One caller that takes numbers from counters: CacheCounter::next, call
\* after call.
MaxNext == 4

NextCalls == {c \in LoadCalls : c.fn = "next"}

CounterNext(p) == FromFileOrSaveNewFrom(p, NextCalls, MaxNext)

NextCounter ==
    \E p \in Procs :
        \/ CounterNext(p)
        \/ MakeNewResolves(p)
        \/ Rerun(p)

SpecCounter == InitCache /\ [][NextCounter]_vars

\* Two callers, each making one call of from_file_or_save_new; the calls
\* may overlap.  No file is there at the start.
PairLoadCalls == {c \in LoadCalls : c.fn = "from_file_or_save_new"}

FromFileOrSaveNewPair(p) == FromFileOrSaveNewFrom(p, PairLoadCalls, 1)

InitCachePair ==
    /\ ApiIdle
    /\ StringsIdle
    /\ PathIdle
    /\ GIT_WORK_DIR \in GitWorkDirs
    /\ fs \in {[dirs |-> ds, files |-> [f \in FilePaths |-> None]] :
                ds \in SUBSET CacheDirs}
    /\ now = 0
    /\ cpc = [p \in Procs |-> "ready"]
    /\ ccall = [p \in Procs |-> None]
    /\ cret = [p \in Procs |-> None]
    /\ ncalls = [p \in Procs |-> 0]
    /\ clog = <<>>

NextCachePair ==
    \E p \in Procs :
        \/ FromFileOrSaveNewPair(p)
        \/ MakeNewResolves(p)

SpecCachePair == InitCachePair /\ [][NextCachePair]_vars

Rendered(p) == shown[p] # None
Shown(p) == shown[p][1].err
Out(p) == shown[p][1].out

\* The line naming the request of call p.
RequestLine(p) ==
    <<Lit(TheCall(p).request.v.method), Lit(" "), Lit(TheCall(p).request.v.url)>>

\* How each kind of failure is described.
KindText(tag) ==
    CASE tag = "BuildRequest" -> "Failed building request: "
      [] tag = "ExecuteRequest" -> "Failed executing request: "
      [] tag = "ReadRespBodyText" -> "Failed reading response text: "
      [] tag = "ExpectedErrorResponse" -> "Expected error response, got success"
      [] tag = "ExpectedStatus" -> "Expected status: "
      [] tag = "DeserializeError" -> "Failed deserializing JSON response: "
      [] tag = "ErrorResponse" -> "Got API error response: "

\* One line of out describes the failure e; for ExpectedStatus it gives the
\* status expected and the status got.
Describes(out, e) ==
    \E i \in DOMAIN out :
        /\ out[i] # <<>>
        /\ out[i][1] = Lit(KindText(e.tag))
        /\ e.tag = "ExpectedStatus" =>
            out[i] = <<Lit("Expected status: "), StatusDisplay(e.expected_status),
                       Lit(", got: "), StatusDisplay(e.context.got_status)>>

\* C20, as claimed: the rendering of any error has the request's method and
\* URL, a line describing the failure, and the response text when there is
\* one.
C20_RenderingNamesRequest ==
    \A p \in Procs : Rendered(p) =>
        /\ IsOk(TheCall(p).request) =>
            \E i \in DOMAIN Out(p) : Out(p)[i] = RequestLine(p)
        /\ Describes(Out(p), Shown(p))
        /\ Carried(Shown(p)) # <<>> =>
            \E i \in DOMAIN Out(p) : Out(p)[i] = Carried(Shown(p))[1].response_text

\* C20, amended: the method and URL are there when the error carries a
\* context, and only then; the description always; the response text, as it
\* was read, when the error carries a context.
C20_RenderingNamesRequestOfContext ==
    \A p \in Procs : Rendered(p) =>
        /\ Describes(Out(p), Shown(p))
        /\ Carried(Shown(p)) # <<>> =>
            /\ Len(Out(p)) = 3
            /\ Out(p)[1] = RequestLine(p)
            /\ Out(p)[3] = Body(p)
        /\ Carried(Shown(p)) = <<>> =>
            /\ Len(Out(p)) = 1
            /\ IsOk(TheCall(p).request) => Out(p)[1] # RequestLine(p)

\* The rendering tests::test_expect_err__wrong_status looks for.
C20_Witness ==
    \E p \in Procs :
        /\ Rendered(p) /\ Shown(p).tag = "ExpectedStatus"
        /\ Out(p)[1] = <<Lit("GET"), Lit(" "), Lit("http://hello.com/")>>
        /\ Out(p)[2] = <<Lit("Expected status: "), Lit("404 Not Found"),
                          Lit(", got: "), Lit("400 Bad Request")>>
        /\ Out(p)[3] = TextBoth

\* C21

\* The positions of the text t whose character slugify keeps, in order.
KeptAt(t) ==
    SelectSeq([i \in DOMAIN t |-> i],
              LAMBDA i : lower(t[i]) \in Alnum \cup Accented)

\* The character kept for the one at position i of t.
KeptChar(t, i) ==
    IF lower(t[i]) \in Accented THEN base_letter(lower(t[i])) ELSE lower(t[i])

\* A separator stands somewhere between positions i and j of t.
SeparatedBetween(t, i, j) ==
    \E k \in (i + 1)..(j - 1) : t[k] \in Separators

\* The kept characters from the n-th on, each after the first preceded by one
\* hyphen when separators stood between it and the kept character before.
RECURSIVE Hyphenated(_, _, _)
Hyphenated(t, kept, n) ==
    IF n > Len(kept) THEN <<>>
    ELSE (IF n > 1 /\ SeparatedBetween(t, kept[n - 1], kept[n])
          THEN <<"-">> ELSE <<>>)
         \o <<KeptChar(t, kept[n])>>
         \o Hyphenated(t, kept, n + 1)

Slugged == slugs # <<>>

\* C21: the slug of any text is made of a-z, 0-9 and '-' only, neither begins
\* nor ends with '-', has no two '-' in a row, is the kept characters in lower
\* case with one '-' wherever separators stood between two of them, and is
\* its own slug.
C21_SlugShape ==
    Slugged =>
        LET slug == slugs[1] IN
        /\ \A i \in DOMAIN slug : slug[i] \in Alnum \cup {"-"}
        /\ slug # <<>> => slug[1] # "-" /\ slug[Len(slug)] # "-"
        /\ \A i \in 1..(Len(slug) - 1) : ~(slug[i] = "-" /\ slug[i + 1] = "-")
        /\ slug = Hyphenated(slug_text, KeptAt(slug_text), 1)
        /\ Len(slugs) = 2 => slugs[2] = slug

\* "A _É" gives "a-e", and "a-e" gives "a-e".
C21_Witness ==
    /\ slug_text = <<"A", " ", "_", "É">>
    /\ slugs = <<<<"a", "-", "e">>, <<"a", "-", "e">>>>

\* C22

\* ctx is the whole of what call p observed, and the body was read before.
Snapshot(p, ctx) ==
    /\ executes[p] = 1 /\ executed[p] # None /\ IsOk(executed[p][1])
    /\ reads[p] = 1 /\ text[p] # None /\ IsOk(text[p][1])
    /\ ctx.method = TheCall(p).request.v.method
    /\ ctx.url = TheCall(p).request.v.url
    /\ ctx.got_status = executed[p][1].v
    /\ ctx.response_text = text[p][1].v

\* The contexts found in r, a result or nothing yet: that of an Ok response
\* with context, that of an error.
ContextsIn(r, whole) ==
    IF r = None THEN {}
    ELSE IF IsOk(r[1]) THEN (IF whole THEN {r[1].v.context} ELSE {})
    ELSE {Carried(r[1].v)[i] : i \in DOMAIN Carried(r[1].v)}

\* C22: a context found in what partial_expect resolved to, or in an error
\* the caller holds, was built after the body text was read and has the
\* method and URL of the request submitted, the status of the response and
\* the entire text read; when the body read failed nothing holds a context.
C22_CompleteSnapshot ==
    \A p \in Procs :
        LET found == ContextsIn(outcome[p], TRUE) \cup ContextsIn(result[p], FALSE) IN
        /\ \A ctx \in found : Snapshot(p, ctx)
        /\ ~Done(p) => found = {}
        /\ (text[p] # None /\ IsErr(text[p][1])) => found = {}

\* A 404 answered with a truncated text: the DeserializeError holds the
\* request, the 404 and the truncated text.
C22_Witness ==
    \E p \in Procs :
        /\ Done(p) /\ IsErr(Outcome(p))
        /\ Outcome(p).v.tag = "DeserializeError"
        /\ Outcome(p).v.context =
             [method |-> "POST", url |-> "http://hello.com/",
              got_status |-> 404, response_text |-> TextTruncated]
        /\ reads[p] = 1

\* C23

\* Call p narrows in this step.
Narrows(p) == narrows'[p] = narrows[p] + 1

\* C23: narrowing is a function of its input and the expected status, and
\* leaves contexts as they are: a narrowing of the same input with the same
\* expected status as the one before returns what that one returned; a
\* failure a narrowing returns with a context has the context of the input;
\* and a narrowing changes nothing of what partial_expect resolved to.
C23_NarrowingPure ==
    /\ [](\A p \in Procs :
            (Narrowed(p) /\ IsErr(Held(p)) /\ Carried(Held(p).v) # <<>>)
            => /\ IsErr(Input(p))
               /\ Carried(Input(p).v) = Carried(Held(p).v))
    /\ [][\A p \in Procs :
            Narrows(p) =>
                /\ outcome'[p] = outcome[p]
                /\ (Narrowed(p) /\ last'[p][1].input = Input(p)
                        /\ last'[p][1].expect = Expect(p))
                   => result'[p] = result[p]]_vars

\* An ErrorResponse of a 400 narrowed to 404, then the ExpectedStatus that
\* gave narrowed to 302: the context is still that of the response.
C23_Witness ==
    \E p \in Procs :
        /\ Transported(p) /\ Status(p) = 400 /\ narrows[p] = 2
        /\ Input(p).v.tag = "ExpectedStatus" /\ Input(p).v.expected_status = 404
        /\ Expect(p) = 302
        /\ IsErr(Held(p)) /\ Held(p).v.tag = "ExpectedStatus"
        /\ Held(p).v.expected_status = 302
        /\ Held(p).v.context = Observed(p)

\* C24

\* The pieces of s: what stands between two of its positions.
Pieces(s) == {SubSeq(s, i, j) : i \in 1..(Len(s) + 1), j \in 0..Len(s)}

\* t is s without the whitespace around it.
IsTrimOf(t, s) ==
    \E i \in 1..(Len(s) + 1), j \in 0..Len(s) :
        /\ t = SubSeq(s, i, j)
        /\ \A k \in DOMAIN s : (k < i \/ k > j) => s[k] = " "
        /\ t # <<>> => t[1] # " " /\ t[Len(t)] # " "

\* o is b without the slashes at its end.
IsWithoutSlashesAtEnd(o, b) ==
    \E j \in 0..Len(b) :
        /\ o = SubSeq(b, 1, j)
        /\ \A k \in (j + 1)..Len(b) : b[k] = "/"
        /\ o # <<>> => o[Len(o)] # "/"

\* q is b without the slashes at its start.
IsWithoutSlashesAtStart(q, b) ==
    \E i \in 1..(Len(b) + 1) :
        /\ q = SubSeq(b, i, Len(b))
        /\ \A k \in 1..(i - 1) : b[k] = "/"
        /\ q # <<>> => q[1] # "/"

\* C24: path returns the trimmed base without the slashes at its end, one
\* slash, and the trimmed path without the slashes at its start, so that one
\* slash exactly stands between the two.
C24_PathJoined ==
    joined # None =>
        \E n \in 0..Len(joined[1]) :
            LET origin == SubSeq(joined[1], 1, n)
                rest == SubSeq(joined[1], n + 1, Len(joined[1]))
            IN  /\ rest # <<>> /\ rest[1] = "/"
                /\ \E b \in Pieces(base_url) :
                    IsTrimOf(b, base_url) /\ IsWithoutSlashesAtEnd(origin, b)
                /\ \E b \in Pieces(url_path) :
                    IsTrimOf(b, url_path) /\ IsWithoutSlashesAtStart(Tail(rest), b)

\* " a//" and "/a " give "a/a".
C24_Witness ==
    /\ base_url = <<" ", "a", "/", "/">>
    /\ url_path = <<"/", "a", " ">>
    /\ joined = Some(<<"a", "/", "a">>)

\* C25

\* The entries of the log that are calls of fn.
CallsOf(fn) == {i \in DOMAIN clog : clog[i].call.fn = fn}

\* The cache directory of entry e was found, so that it has a file.
Located(e) == IsOk(FileOf(e.call))

\* The directory of the file of e was there when e ended.
DirThere(e) == parent(FileOf(e.call).v)[1] \in e.dirs

\* Entry e loaded what the file held and did not run make_new.
LoadedFromFile(e) ==
    /\ e.new = None
    /\ e.ret = Some(from_file_bytes(e.call.T, e.before[1]))
    /\ e.after = e.before

\* Entry e ran make_new, wrote its value to the file and returned it.
MadeAndStored(e) ==
    /\ e.new # None /\ IsOk(e.new[1])
    /\ e.ret = Some(Ok(e.new[1].v))
    /\ e.after = Some(as_file_bytes(e.new[1].v).v)

\* Entry e ran make_new, which failed: the error is returned, no file made.
MadeNothing(e) ==
    /\ e.new # None /\ IsErr(e.new[1])
    /\ e.ret = Some(e.new[1])
    /\ e.after = None

\* Between entries i and j, every call about the file of i goes through
\* from_file_or_save_new itself.
OnlyLoadsBetween(i, j) ==
    \A k \in (i + 1)..(j - 1) :
        FileOf(clog[k].call) = FileOf(clog[i].call)
        => clog[k].call.fn = "from_file_or_save_new"

\* C25, as claimed: a call loads the file when it is there and never runs
\* make_new; when it is not there make_new runs, its value is written and
\* returned, or its error returned with no file made; so that make_new
\* succeeds once at most for a file, and later calls return what was stored.
C25_Memoizes ==
    \A j \in CallsOf("from_file_or_save_new") :
        LET e == clog[j] IN
        Located(e) =>
            /\ e.before # None => LoadedFromFile(e)
            /\ e.before = None => MadeAndStored(e) \/ MadeNothing(e)
            /\ \A i \in CallsOf("from_file_or_save_new") :
                (i < j /\ FileOf(clog[i].call) = FileOf(e.call)
                    /\ OnlyLoadsBetween(i, j)
                    /\ clog[i].new # None /\ IsOk(clog[i].new[1]))
                => /\ e.new = None
                   /\ e.ret = Some(from_file_bytes(e.call.T,
                                        as_file_bytes(clog[i].new[1].v).v))

\* Entry e ran make_new, which succeeded, but the file could not be
\* written: the call panicked, and no file is made.
MadeAndPanicked(e) ==
    /\ e.new # None /\ IsOk(e.new[1])
    /\ e.ret = None
    /\ e.after = None

\* What the code does where C25 fails: a value that cannot be written, the
\* cache directory missing, makes the call panic, and make_new runs again in
\* a later call.  After a call that stored its value make_new never runs
\* again and later calls return what that call stored.
C25_MemoizesOnceWritten ==
    \A j \in CallsOf("from_file_or_save_new") :
        LET e == clog[j] IN
        /\ ~Located(e) => e.new = None /\ e.ret # None /\ IsErr(e.ret[1])
        /\ Located(e) =>
            /\ e.before # None => LoadedFromFile(e)
            /\ e.before = None =>
                \/ MadeNothing(e)
                \/ DirThere(e) /\ MadeAndStored(e)
                \/ ~DirThere(e) /\ MadeAndPanicked(e)
            /\ \A i \in CallsOf("from_file_or_save_new") :
                (i < j /\ FileOf(clog[i].call) = FileOf(e.call)
                    /\ OnlyLoadsBetween(i, j)
                    /\ MadeAndStored(clog[i]))
                => /\ e.new = None
                   /\ e.ret = Some(from_file_bytes(e.call.T,
                                        as_file_bytes(clog[i].new[1].v).v))

\* make_new made CacheCounter(2), which was stored as "2"; the next call
\* for the file returned CacheCounter(2) without running make_new.
C25_Witness ==
    /\ Len(clog) = 2
    /\ clog[1].call = [fn |-> "from_file_or_save_new", file_id |-> "test_counter",
                       T |-> "CacheCounter"]
    /\ clog[1].new = Some(Ok(CacheCounter(2)))
    /\ clog[1].after = Some(<<"2">>)
    /\ clog[2].call = clog[1].call
    /\ clog[2].new = None
    /\ clog[2].ret = Some(Ok(CacheCounter(2)))

\* C26

\* Entries i and j of the log, i ending first, are of calls that overlapped:
\* j began before i ended.
Overlapped(i, j) == i < j /\ clog[j].began < i

\* C26, as claimed: of two overlapping calls of from_file_or_save_new for
\* one file that was not there, with the cache directory there and no
\* make_new failing, one at most runs make_new, and both return the value
\* the file holds in the end.
C26_OverlappingCallsAgree ==
    \A i, j \in CallsOf("from_file_or_save_new") :
        (/\ Overlapped(i, j)
         /\ Located(clog[i]) /\ DirThere(clog[i])
         /\ FileOf(clog[i].call) = FileOf(clog[j].call)
         /\ clog[i].call.T = clog[j].call.T
         /\ \A k \in {i, j} : clog[k].new # None => IsOk(clog[k].new[1]))
        => /\ ~(clog[i].new # None /\ clog[j].new # None)
           /\ \A k \in {i, j} :
                /\ clog[k].ret # None
                /\ Holds(fs, clog[j].call) # None
                /\ clog[k].ret[1] =
                     from_file_bytes(clog[k].call.T, Holds(fs, clog[j].call)[1])

\* C27

\* The entries of the log up to the j-th that are about the file of the j-th.
AboutSameFile(j) ==
    {i \in 1..j : FileOf(clog[i].call) = FileOf(clog[j].call)}

\* The file of entry j was not there before the first call about it, and
\* its directory was, so that writing it succeeds.
FreshAndWritable(j) ==
    LET first == CHOOSE i \in AboutSameFile(j) : \A h \in AboutSameFile(j) : i =< h
    IN  clog[first].before = None /\ DirThere(clog[first])

\* C27: starting without the file and with writes succeeding, the k-th of
\* the calls next(file_id) that follow one another returns the counter k,
\* and the file then holds k.
C27_CounterCounts ==
    \A j \in CallsOf("next") :
        (/\ Located(clog[j])
         /\ AboutSameFile(j) \subseteq CallsOf("next")
         /\ FreshAndWritable(j))
        => LET k == Cardinality(AboutSameFile(j)) IN
           /\ clog[j].ret = Some(Ok(CacheCounter(k)))
           /\ clog[j].after # None
           /\ from_file_bytes("CacheCounter", clog[j].after[1]) = Ok(CacheCounter(k))

\* Three calls for test_counter returned 1, 2 and 3; the file holds "3".
C27_Witness ==
    /\ Len(clog) = 3
    /\ \A i \in 1..3 :
        /\ clog[i].call = [fn |-> "next", file_id |-> "test_counter", T |-> "CacheCounter"]
        /\ clog[i].ret = Some(Ok(CacheCounter(i)))
    /\ clog[1].before = None
    /\ fs.files[<<"repo", ".cache", "test_counter">>] = Some(<<"3">>)

\* C28

\* What entry e, a from_cache, loaded from the file.
Loaded(e) ==
    IF e.before = None THEN Err("No such file or directory (os error 2)")
    ELSE from_file_bytes(e.call.T, e.before[1])

\* The value entry e loaded had expired when it was loaded.
LoadedExpired(e) == IsOk(Loaded(e)) /\ e.now >= Loaded(e).v.expires_at

\* C28: from_cache returns no expired value: when the value loaded has
\* expired the file is removed and an error returned, and from_cache on that
\* path goes on failing while the file is not written again; when it has not
\* expired it is returned and the file left as it is.
C28_NoExpiredValue ==
    \A j \in CallsOf("from_cache") :
        LET e == clog[j] IN
        /\ e.ret # None
        /\ LoadedExpired(e) => IsErr(e.ret[1]) /\ e.after = None
        /\ (IsOk(Loaded(e)) /\ ~LoadedExpired(e))
            => e.ret[1] = Loaded(e) /\ e.after = e.before
        /\ IsOk(e.ret[1]) => e.now < e.ret[1].v.expires_at
        /\ \A i \in CallsOf("from_cache") :
            (/\ i < j /\ clog[i].call.file = e.call.file
             /\ LoadedExpired(clog[i])
             /\ \A k \in (i + 1)..(j - 1) :
                    FileOf(clog[k].call) = Ok(e.call.file) => clog[k].after = None)
            => IsErr(e.ret[1])

\* The token left in repo/.cache/Token expires at 1: loaded at 1 it is
\* removed with "Cache expired", and the next from_cache finds no file.
C28_Witness ==
    /\ Len(clog) = 2
    /\ \A i \in 1..2 :
        clog[i].call = [fn |-> "from_cache", file |-> <<"repo", ".cache", "Token">>,
                        T |-> "Token"]
    /\ clog[1].before = Some(<<"{", "7", ",", "1", "}">>)
    /\ clog[1].now = 1
    /\ clog[1].ret = Some(Err("Cache expired"))
    /\ clog[1].after = None
    /\ clog[2].ret = Some(Err("No such file or directory (os error 2)"))

====
